---------------------------- MODULE Spec2Model ----------------------------
(***************************************************************************)
(* Verification model of the stylusport MCP server's handbook search:      *)
(* the dual-field BM25 index (mcp/src/resources/bm25.rs) and the lazily    *)
(* built shared INDEX (mcp/src/resources.rs).                              *)
(*                                                                         *)
(* Strings are sequences of one-character strings.  f64 quantities are     *)
(* fixed-point integers, rounded down, except that a positive quantity     *)
(* never rounds to zero (the sign of every f64 value is kept exact):       *)
(*   idf            in units of 1e-4                                       *)
(*   norm, tfp, sat in units of 1e-3                                       *)
(*   scores         in units of 1e-7                                       *)
(* An average length is the exact rational sum / n, kept as a record.      *)
(***************************************************************************)
EXTENDS Integers, Sequences, FiniteSets, TLC

(***************************************************************************)
(* Characters                                                              *)
(***************************************************************************)
UpperSeq ==
  <<"A", "B", "C", "D", "E", "F", "G", "H", "I", "J", "K", "L", "M",
    "N", "O", "P", "Q", "R", "S", "T", "U", "V", "W", "X", "Y", "Z">>

LowerSeq ==
  <<"a", "b", "c", "d", "e", "f", "g", "h", "i", "j", "k", "l", "m",
    "n", "o", "p", "q", "r", "s", "t", "u", "v", "w", "x", "y", "z">>

Upper == {UpperSeq[i] : i \in 1..Len(UpperSeq)}

Lower == {LowerSeq[i] : i \in 1..Len(LowerSeq)}

Digit == {"0", "1", "2", "3", "4", "5", "6", "7", "8", "9"}

\* char::is_ascii_alphanumeric
IsAlnum(c) == c \in Upper \cup Lower \cup Digit

LowerMap == [c \in Upper |-> LowerSeq[CHOOSE i \in 1..Len(UpperSeq) : UpperSeq[i] = c]]

\* str::to_ascii_lowercase
to_ascii_lowercase(s) ==
  [i \in 1..Len(s) |-> IF s[i] \in Upper THEN LowerMap[s[i]] ELSE s[i]]

\* str::ends_with
ends_with(s, suf) ==
  /\ Len(s) >= Len(suf)
  /\ SubSeq(s, Len(s) - Len(suf) + 1, Len(s)) = suf

\* str::truncate followed by nothing: the first n characters
truncate(s, n) == SubSeq(s, 1, n)

(***************************************************************************)
(* Tokenizer, classifier, decomposer, normalizer, noise filter             *)
(***************************************************************************)
\* the characters tokenize_raw keeps inside a token
IsTokenChar(c) == IsAlnum(c) \/ c = "_" \/ c = ":" \/ c = "!"

RECURSIVE TokenizeFrom(_, _, _, _)
TokenizeFrom(s, i, cur, out) ==
  IF i > Len(s)
    THEN IF cur = <<>> THEN out ELSE Append(out, cur)
    ELSE IF IsTokenChar(s[i])
           THEN TokenizeFrom(s, i + 1, Append(cur, s[i]), out)
           ELSE TokenizeFrom(s, i + 1, <<>>,
                             IF cur = <<>> THEN out ELSE Append(out, cur))

\* a faulty variant of tokenize_raw: the empty pieces of the split are kept
RECURSIVE TokenizeFromKeepEmpty(_, _, _, _)
TokenizeFromKeepEmpty(s, i, cur, out) ==
  IF i > Len(s) THEN Append(out, cur)
  ELSE IF IsTokenChar(s[i])
         THEN TokenizeFromKeepEmpty(s, i + 1, Append(cur, s[i]), out)
         ELSE TokenizeFromKeepEmpty(s, i + 1, <<>>, Append(out, cur))

tokenize_raw_keep_empty(s) == TokenizeFromKeepEmpty(s, 1, <<>>, <<>>)

\* split on every other character, drop the empty pieces
tokenize_raw(s) == TokenizeFrom(s, 1, <<>>, <<>>)

\* a faulty variant of looks_code: a "!" or a ":" anywhere makes a token code
looks_code_any_mark(tok) ==
  \/ \E i \in 1..Len(tok) : tok[i] \in Upper \/ tok[i] \in Digit
  \/ \E i \in 1..Len(tok) : tok[i] = "_"
  \/ \E i \in 1..Len(tok) : tok[i] = ":"
  \/ \E i \in 1..Len(tok) : tok[i] = "!"

looks_code(tok) ==
  \/ \E i \in 1..Len(tok) : tok[i] \in Upper \/ tok[i] \in Digit
  \/ \E i \in 1..Len(tok) : tok[i] = "_"
  \/ \E i \in 1..(Len(tok) - 1) : tok[i] = ":" /\ tok[i + 1] = ":"
  \/ (Len(tok) > 0 /\ tok[Len(tok)] = "!")

\* the index one past the run of characters of class cls that starts at i
RECURSIVE RunEnd(_, _, _)
RunEnd(chars, i, cls) ==
  IF i <= Len(chars) /\ chars[i] \in cls THEN RunEnd(chars, i + 1, cls) ELSE i

\* a faulty variant of AcronymEnd: an acronym keeps its last letter
AcronymEndNoBackUp(chars, start, ia) == ia

\* where an acronym that started at start and whose uppercase run ends before
\* ia ends: one character earlier when a lowercase letter follows the run
AcronymEnd(chars, start, ia) ==
  LET followed_by_lowercase == ia <= Len(chars) /\ chars[ia] \in Lower
      is_multi_char_acronym == ia - start > 1
  IN  IF followed_by_lowercase /\ is_multi_char_acronym THEN ia - 1 ELSE ia

\* the value of i after the turn of the while loop that begins at i
CamelNext(chars, i) ==
  IF chars[i] \in Upper
    THEN LET i1 == i + 1
             is_capitalized_word == i1 <= Len(chars) /\ chars[i1] \in Lower
             iw == RunEnd(chars, i1, Lower)
             ia == RunEnd(chars, i1, Upper)
         IN  IF is_capitalized_word THEN iw ELSE AcronymEnd(chars, i, ia)
  ELSE IF chars[i] \in Lower THEN RunEnd(chars, i, Lower)
  ELSE IF chars[i] \in Digit THEN RunEnd(chars, i, Digit)
  ELSE i + 1

\* the while loop from i on: a turn that begins at a letter or a digit
\* pushes chars[start..i], a turn at any other character pushes nothing
RECURSIVE CamelFrom(_, _, _)
CamelFrom(chars, i, out) ==
  IF i > Len(chars) THEN out
  ELSE LET e == CamelNext(chars, i)
       IN  IF chars[i] \in Upper \cup Lower \cup Digit
             THEN CamelFrom(chars, e, Append(out, SubSeq(chars, i, e - 1)))
           ELSE CamelFrom(chars, e, out)

\* a faulty variant of split_camel_acronyms: the loop begins at the second
\* character
split_camel_acronyms_from_second(seg) == CamelFrom(seg, 2, <<>>)

split_camel_acronyms(seg) == CamelFrom(seg, 1, <<>>)

\* str::split("::"): non-overlapping matches, left to right, empty pieces kept
RECURSIVE SplitPathFrom(_, _, _, _)
SplitPathFrom(s, i, cur, out) ==
  IF i > Len(s) THEN Append(out, cur)
  ELSE IF i < Len(s) /\ s[i] = ":" /\ s[i + 1] = ":"
         THEN SplitPathFrom(s, i + 2, <<>>, Append(out, cur))
         ELSE SplitPathFrom(s, i + 1, Append(cur, s[i]), out)

\* str::split('_'): empty pieces kept
RECURSIVE SplitSnakeFrom(_, _, _, _)
SplitSnakeFrom(s, i, cur, out) ==
  IF i > Len(s) THEN Append(out, cur)
  ELSE IF s[i] = "_"
         THEN SplitSnakeFrom(s, i + 1, <<>>, Append(out, cur))
         ELSE SplitSnakeFrom(s, i + 1, Append(cur, s[i]), out)

\* the concatenation of a sequence of sequences (Iterator::flat_map, once
\* the closure has been applied to each element)
RECURSIVE Flatten(_)
Flatten(ss) ==
  IF ss = <<>> THEN <<>> ELSE Head(ss) \o Flatten(Tail(ss))

SplitSnake(seg) == SplitSnakeFrom(seg, 1, <<>>, <<>>)

split_identifier(tok) ==
  LET segs  == SplitPathFrom(tok, 1, <<>>, <<>>)
      parts == Flatten([i \in 1..Len(segs) |-> SplitSnake(segs[i])])
      runs  == Flatten([i \in 1..Len(parts) |-> split_camel_acronyms(parts[i])])
      kept  == SelectSeq(runs, LAMBDA r : r # <<>>)
  IN  [i \in 1..Len(kept) |-> to_ascii_lowercase(kept[i])]

\* a faulty variant of normalize_prose: the first rule that applies is the only
\* one applied
normalize_prose_one_stage(tok) ==
  LET t0 == to_ascii_lowercase(tok)
  IN  IF ends_with(t0, <<"i", "e", "s">>) /\ Len(t0) > 3
        THEN Append(truncate(t0, Len(t0) - 3), "y")
      ELSE IF ends_with(t0, <<"s">>) /\ ~ends_with(t0, <<"s", "s">>)
              /\ Len(t0) > 3
        THEN truncate(t0, Len(t0) - 1)
      ELSE IF ends_with(t0, <<"i", "n", "g">>) /\ Len(t0) > 5
        THEN truncate(t0, Len(t0) - 3)
      ELSE IF ends_with(t0, <<"e", "d">>) /\ Len(t0) > 4
        THEN truncate(t0, Len(t0) - 2)
      ELSE t0

normalize_prose(tok) ==
  LET t0 == to_ascii_lowercase(tok)
      t1 == IF ends_with(t0, <<"i", "e", "s">>) /\ Len(t0) > 3
              THEN Append(truncate(t0, Len(t0) - 3), "y")
            ELSE IF ends_with(t0, <<"s">>) /\ ~ends_with(t0, <<"s", "s">>)
                    /\ Len(t0) > 3
              THEN truncate(t0, Len(t0) - 1)
            ELSE t0
  IN  IF ends_with(t1, <<"i", "n", "g">>) /\ Len(t1) > 5
        THEN truncate(t1, Len(t1) - 3)
      ELSE IF ends_with(t1, <<"e", "d">>) /\ Len(t1) > 4
        THEN truncate(t1, Len(t1) - 2)
      ELSE t1

KW ==
  { <<"f", "n">>, <<"l", "e", "t">>, <<"m", "u", "t">>, <<"p", "u", "b">>,
    <<"u", "s", "e">>, <<"m", "o", "d">>, <<"i", "m", "p", "l">>,
    <<"s", "t", "r", "u", "c", "t">>, <<"e", "n", "u", "m">>,
    <<"t", "r", "a", "i", "t">>, <<"w", "h", "e", "r", "e">>, <<"a", "s">>,
    <<"i", "n">>, <<"m", "a", "t", "c", "h">>, <<"i", "f">>,
    <<"e", "l", "s", "e">>, <<"l", "o", "o", "p">>,
    <<"w", "h", "i", "l", "e">>, <<"f", "o", "r">>, <<"s", "e", "l", "f">>,
    <<"s", "u", "p", "e", "r">>, <<"c", "r", "a", "t", "e">>,
    <<"r", "e", "t", "u", "r", "n">>, <<"t", "y", "p", "e">>,
    <<"c", "o", "n", "s", "t">>, <<"s", "t", "a", "t", "i", "c">>,
    <<"r", "e", "f">>, <<"m", "o", "v", "e">>, <<"a", "s", "y", "n", "c">>,
    <<"a", "w", "a", "i", "t">>, <<"d", "y", "n">>,
    <<"d", "e", "f", "a", "u", "l", "t">>, <<"e", "x", "t", "e", "r", "n">>,
    <<"u", "n", "s", "a", "f", "e">>, <<"d", "e", "r", "i", "v", "e">>,
    <<"t", "e", "s", "t">>, <<"c", "f", "g">>, <<"a", "l", "l", "o", "w">>,
    <<"d", "e", "n", "y">>, <<"w", "a", "r", "n">> }

\* a faulty variant of is_noise_code_token: one-character tokens are kept
is_noise_code_token_keep_short(tok) ==
  \/ tok \in KW
  \/ (Len(tok) > 0 /\ tok[1] = "'")

\* keywords, lifetimes, one-character tokens
is_noise_code_token(tok) ==
  \/ tok \in KW
  \/ (Len(tok) > 0 /\ tok[1] = "'")
  \/ Len(tok) = 1

\* the code terms one raw code-like token registers: the lowercased whole
\* token, then each subword, each kept unless it is noise
CodeTermsOf(raw) ==
  LET lower == to_ascii_lowercase(raw)
      whole == IF is_noise_code_token(lower) THEN <<>> ELSE <<lower>>
      subs  == SelectSeq(split_identifier(raw),
                         LAMBDA sub : ~is_noise_code_token(sub))
  IN  whole \o subs

\* a faulty variant of FieldTermsFrom: the noise filter is applied to prose
\* tokens too
RECURSIVE FieldTermsFromFilterProse(_, _, _, _)
FieldTermsFromFilterProse(toks, i, prose, code) ==
  IF i > Len(toks) THEN [prose |-> prose, code |-> code]
  ELSE IF looks_code(toks[i])
         THEN FieldTermsFromFilterProse(toks, i + 1, prose,
                                        code \o CodeTermsOf(toks[i]))
         ELSE FieldTermsFromFilterProse(
                toks, i + 1,
                IF is_noise_code_token(normalize_prose(toks[i])) THEN prose
                ELSE Append(prose, normalize_prose(toks[i])),
                code)

\* the loop over tokenize_raw(text) of add_doc: the terms counted in each
\* field, in text order (lp and lc are the lengths of the two sequences)
RECURSIVE FieldTermsFrom(_, _, _, _)
FieldTermsFrom(toks, i, prose, code) ==
  IF i > Len(toks) THEN [prose |-> prose, code |-> code]
  ELSE IF looks_code(toks[i])
         THEN FieldTermsFrom(toks, i + 1, prose, code \o CodeTermsOf(toks[i]))
         ELSE FieldTermsFrom(toks, i + 1,
                             Append(prose, normalize_prose(toks[i])), code)

FieldTerms(text) == FieldTermsFrom(tokenize_raw(text), 1, <<>>, <<>>)

\* a faulty variant of QTermsOf: a prose query token is lowercased but not
\* normalised
QTermsOfUnnormalised(raw) ==
  IF looks_code(raw)
    THEN LET ct == CodeTermsOf(raw) IN [i \in 1..Len(ct) |-> <<ct[i], TRUE>>]
    ELSE << <<to_ascii_lowercase(raw), FALSE>> >>

\* the (term, is_code) pairs one raw query token pushes onto q_terms: the
\* body of score's loop over tokenize_raw(query)
QTermsOf(raw) ==
  IF looks_code(raw)
    THEN LET whole == to_ascii_lowercase(raw)
             subs  == split_identifier(raw)
             first == IF ~is_noise_code_token(whole)
                        THEN << <<whole, TRUE>> >> ELSE <<>>
             kept  == SelectSeq(subs, LAMBDA sub : ~is_noise_code_token(sub))
         IN  first \o [i \in 1..Len(kept) |-> <<kept[i], TRUE>>]
    ELSE << <<normalize_prose(raw), FALSE>> >>

\* q_terms: Vec<(String, bool)>
q_terms(query) ==
  LET toks == tokenize_raw(query)
  IN  Flatten([i \in 1..Len(toks) |-> QTermsOf(toks[i])])

(***************************************************************************)
(* Inputs: the texts documents are added with and the queries scored       *)
(***************************************************************************)
\* the most documents an index holds
MaxDocs == 2

\* document identifiers are opaque; a fresh one is the next unused number
DocIds == 1..MaxDocs

\* ". .": no token at all
TextNoTokens == <<".", " ", ".">>

\* "error Error": the term error in both fields
TextErrorBoth == <<"e", "r", "r", "o", "r", " ", "E", "r", "r", "o", "r">>

\* "errors": the term error in the prose field only
TextErrors == <<"e", "r", "r", "o", "r", "s">>

\* "parse_http T": a snake-case identifier and a one-letter generic
TextPath == <<"p", "a", "r", "s", "e", "_", "h", "t", "t", "p", " ", "T">>

Texts == {TextNoTokens, TextErrorBoth, TextErrors, TextPath}

\* ""
QEmpty == <<>>

\* ", "
QDelims == <<",", " ">>

\* "T Fn"
QNoise == <<"T", " ", "F", "n">>

\* "zzz"
QUnknown == <<"z", "z", "z">>

\* "error"
QError == <<"e", "r", "r", "o", "r">>

\* "Error"
QErrorCode == <<"E", "r", "r", "o", "r">>

\* "error Error"
QProseCode == <<"e", "r", "r", "o", "r", " ", "E", "r", "r", "o", "r">>

\* "Error error"
QCodeProse == <<"E", "r", "r", "o", "r", " ", "e", "r", "r", "o", "r">>

\* "parse_http errors"
QPathErrors == <<"p", "a", "r", "s", "e", "_", "h", "t", "t", "p", " ", "e", "r", "r", "o", "r", "s">>

\* q followed by q again
Twice(q) == q \o <<" ">> \o q

\* the queries that are also asked twice over
RepeatQueries == {QError, QProseCode, QPathErrors}

\* the elements of a sequence
Range(f) == {f[x] : x \in DOMAIN f}

\* every raw token of a text, as a query of its own
RawTokenQueries == UNION {Range(tokenize_raw(text)) : text \in Texts}

Queries ==
  {QEmpty, QDelims, QNoise, QUnknown, QError, QErrorCode, QProseCode,
   QCodeProse, QPathErrors} \cup {Twice(q) : q \in RepeatQueries}
    \cup RawTokenQueries

\* FieldTerms and q_terms of the inputs above, computed once
FieldTermsTable == [text \in Texts |-> FieldTerms(text)]

QTermsTable == [query \in Queries |-> q_terms(query)]

FieldTermsOf(text) ==
  IF text \in DOMAIN FieldTermsTable THEN FieldTermsTable[text] ELSE FieldTerms(text)

QueryTermsOf(query) ==
  IF query \in DOMAIN QTermsTable THEN QTermsTable[query] ELSE q_terms(query)

(***************************************************************************)
(* struct Index and its operations                                         *)
(***************************************************************************)
Max(a, b) == IF a >= b THEN a ELSE b

\* the number of occurrences of x in the sequence s
Count(s, x) == Cardinality({i \in 1..Len(s) : s[i] = x})

RECURSIVE SumOver(_, _)
SumOver(f, S) ==
  IF S = {} THEN 0
  ELSE LET x == CHOOSE y \in S : TRUE IN f[x] + SumOver(f, S \ {x})

\* a faulty variant of DefaultTermStats: a new term starts with the idf ln 2
DefaultTermStatsLn2 == [prose |-> <<>>, code |-> <<>>, idf |-> 6931]

\* TermStats::default()
DefaultTermStats == [prose |-> <<>>, code |-> <<>>, idf |-> 0]

\* f64 0.0 as an average length
ZeroAvg == [num |-> 0, den |-> 1]

\* Index::new(k1); hyperparameters in hundredths (1.2, 1.0, 0.75, 1.0, 0.50)
IndexNew(k1) ==
  [terms     |-> << >>,
   len_prose |-> << >>,
   len_code  |-> << >>,
   avg_prose |-> ZeroAvg,
   avg_code  |-> ZeroAvg,
   k1        |-> k1,
   w_prose   |-> 100,
   b_prose   |-> 75,
   w_code    |-> 100,
   b_code    |-> 50]

\* a faulty variant of DuplicateDoc: looks for the document in the posting lists
DuplicateDocByPostings(ix, doc_id) ==
  \E t \in DOMAIN ix.terms :
     \/ \E i \in 1..Len(ix.terms[t].prose) : ix.terms[t].prose[i].doc = doc_id
     \/ \E i \in 1..Len(ix.terms[t].code) : ix.terms[t].code[i].doc = doc_id

\* the guard of add_doc: len_prose.contains_key(doc_id)
DuplicateDoc(ix, doc_id) == doc_id \in DOMAIN ix.len_prose

\* a faulty variant of FieldLengths: a term counts once, however often it was
\* registered
FieldLengthsDistinct(ft) ==
  [prose |-> Cardinality(Range(ft.prose)), code |-> Cardinality(Range(ft.code))]

\* lp and lc at the end of add_doc's loop: one more for every term registered
FieldLengths(ft) == [prose |-> Len(ft.prose), code |-> Len(ft.code)]

\* add_doc past its guard
InsertDoc(ix, doc_id, text) ==
  LET ft       == FieldTermsOf(text)
      tf_prose == [t \in Range(ft.prose) |-> Count(ft.prose, t)]
      tf_code  == [t \in Range(ft.code) |-> Count(ft.code, t)]
      lp       == FieldLengths(ft).prose
      lc       == FieldLengths(ft).code
      old(t)   == IF t \in DOMAIN ix.terms THEN ix.terms[t] ELSE DefaultTermStats
  IN  [ix EXCEPT
         !.len_prose = [d \in DOMAIN ix.len_prose \cup {doc_id} |->
                          IF d = doc_id THEN lp ELSE ix.len_prose[d]],
         !.len_code  = [d \in DOMAIN ix.len_code \cup {doc_id} |->
                          IF d = doc_id THEN lc ELSE ix.len_code[d]],
         !.terms     = [t \in DOMAIN ix.terms \cup DOMAIN tf_prose
                                \cup DOMAIN tf_code |->
                          [prose |-> IF t \in DOMAIN tf_prose
                                       THEN Append(old(t).prose,
                                                   [doc |-> doc_id, tf |-> tf_prose[t]])
                                       ELSE old(t).prose,
                           code  |-> IF t \in DOMAIN tf_code
                                       THEN Append(old(t).code,
                                                   [doc |-> doc_id, tf |-> tf_code[t]])
                                       ELSE old(t).code,
                           idf   |-> old(t).idf]]]

\* ln(k) in units of 1e-4, k = 1..20
LnE4 ==
  <<0, 6931, 10986, 13863, 16094, 17918, 19459, 20794, 21972, 23026,
    23979, 24849, 25649, 26391, 27081, 27726, 28332, 28904, 29444, 29957>>

\* ln(1 + max(n - df + 0.5, 1e-12) / max(df + 0.5, 1e-12)) in units of 1e-4:
\* for df <= n this is ln((2n + 2) / (2df + 1)); for df > n the numerator is
\* floored to 1e-12 and the value is positive but below the unit
IdfOf(n, df) ==
  IF df <= n THEN LnE4[2 * n + 2] - LnE4[2 * df + 1] ELSE 1

\* a faulty variant of SeenDocs: a document is counted once for each field it
\* holds the term in
SeenDocsPerField(stats) ==
  {<<"prose", stats.prose[i].doc>> : i \in 1..Len(stats.prose)}
    \cup {<<"code", stats.code[i].doc>> : i \in 1..Len(stats.code)}

\* the documents of the union of a term's prose and code postings
SeenDocs(stats) ==
  {stats.prose[i].doc : i \in 1..Len(stats.prose)}
    \cup {stats.code[i].doc : i \in 1..Len(stats.code)}

\* a faulty variant of finalize: the averages and the idf are added to the
\* ones the index already holds
finalize_accumulating(ix) ==
  LET n     == Cardinality(DOMAIN ix.len_prose)
      sum_p == SumOver(ix.len_prose, DOMAIN ix.len_prose)
      sum_c == SumOver(ix.len_code, DOMAIN ix.len_code)
  IN  [ix EXCEPT
         !.avg_prose = IF n > 0 THEN [num |-> ix.avg_prose.num * n + sum_p * ix.avg_prose.den,
                                      den |-> ix.avg_prose.den * n]
                       ELSE ZeroAvg,
         !.avg_code  = IF n > 0 THEN [num |-> sum_c, den |-> n] ELSE ZeroAvg,
         !.terms     = [t \in DOMAIN ix.terms |->
                          [ix.terms[t] EXCEPT
                             !.idf = ix.terms[t].idf
                                       + IdfOf(n, Cardinality(SeenDocs(ix.terms[t])))]]]

finalize(ix) ==
  LET n     == Cardinality(DOMAIN ix.len_prose)
      sum_p == SumOver(ix.len_prose, DOMAIN ix.len_prose)
      sum_c == SumOver(ix.len_code, DOMAIN ix.len_code)
  IN  [ix EXCEPT
         !.avg_prose = IF n > 0 THEN [num |-> sum_p, den |-> n] ELSE ZeroAvg,
         !.avg_code  = IF n > 0 THEN [num |-> sum_c, den |-> n] ELSE ZeroAvg,
         !.terms     = [t \in DOMAIN ix.terms |->
                          [ix.terms[t] EXCEPT
                             !.idf = IdfOf(n, Cardinality(SeenDocs(ix.terms[t])))]]]

(***************************************************************************)
(* score                                                                   *)
(***************************************************************************)
\* a faulty variant of QueryBoosts: the boosts of the two classifications are
\* exchanged
QueryBoostsSwapped(is_code) ==
  IF is_code THEN [prose |-> 105, code |-> 95] ELSE [prose |-> 95, code |-> 105]

\* query-time field boosts (qb_prose, qb_code), in hundredths
QueryBoosts(is_code) ==
  IF is_code THEN [prose |-> 95, code |-> 105] ELSE [prose |-> 105, code |-> 95]

\* 1e-9 as an average length
TinyAvg == [num |-> 1, den |-> 1000000000]

\* a faulty variant of AvgFloor: the average is used as it is
AvgFloorNone(avg) == avg

\* avg.max(1e-9): an average length is 0 or at least 1 / n
AvgFloor(avg) == IF avg.num = 0 THEN TinyAvg ELSE avg

\* norm = 1 - b + b * (dl / avg.max(1e-9)), in units of 1e-3.  With the
\* average floored to 1e-9 and dl > 0 the norm is of the order of 1e9: it is
\* given as 1e9 units, which every tfp below divides down to less than the
\* unit, as the exact value does.  A quotient by a zero average is inf or
\* NaN (see DividesByZero) and is given the same way.
NormOf(b, dl, avg) ==
  LET a == AvgFloor(avg)
  IN  IF a.num = 0 \/ (a = TinyAvg /\ dl > 0)
        THEN TinyAvg.den
        ELSE 10 * (100 - b) + (10 * b * dl * a.den) \div a.num

\* w * tf / norm, in units of 1e-3
TfpOf(w, b, tf, dl, avg) == (10000 * w * tf) \div NormOf(b, dl, avg)

\* (tfp * (k1 + 1)) / (tfp + k1), in units of 1e-3
SatOf(k1, tfp) == (10 * tfp * (k1 + 100)) \div (tfp + 10 * k1)

\* qb * idf * sat in units of 1e-7; exactly zero only when idf is zero
ContributionOf(qb, idf, sat) ==
  IF idf = 0 THEN 0 ELSE Max(1, ((idf * sat) \div 100) * qb)

\* *acc.entry(doc).or_insert(0.0) += c
AccAdd(acc, doc, c) ==
  [d \in DOMAIN acc \cup {doc} |->
     IF d = doc THEN (IF d \in DOMAIN acc THEN acc[d] ELSE 0) + c ELSE acc[d]]

\* the loop over one posting list of a term
RECURSIVE AccPostings(_, _, _, _, _, _, _, _, _)
AccPostings(acc, ps, i, lens, w, b, avg, k1, qbidf) ==
  IF i > Len(ps) THEN acc
  ELSE LET p   == ps[i]
           dl  == IF p.doc \in DOMAIN lens THEN lens[p.doc] ELSE 0
           tfp == TfpOf(w, b, p.tf, dl, avg)
           c   == ContributionOf(qbidf.qb, qbidf.idf, SatOf(k1, tfp))
       IN  AccPostings(AccAdd(acc, p.doc, c), ps, i + 1, lens, w, b, avg, k1, qbidf)

\* a faulty variant of AccTerm: a term is looked up only in the field of its query token
AccTermOwnFieldOnly(ix, acc, ts, is_code) ==
  IF is_code
    THEN AccPostings(acc, ts.code, 1, ix.len_code, ix.w_code, ix.b_code,
                     ix.avg_code, ix.k1, [qb |-> 105, idf |-> ts.idf])
    ELSE AccPostings(acc, ts.prose, 1, ix.len_prose, ix.w_prose, ix.b_prose,
                     ix.avg_prose, ix.k1, [qb |-> 105, idf |-> ts.idf])

\* the body of the loop over q_terms for a term found in the index:
\* its prose postings, then its code postings
AccTerm(ix, acc, ts, is_code) ==
  LET qb == QueryBoosts(is_code)
      a1 == AccPostings(acc, ts.prose, 1, ix.len_prose, ix.w_prose, ix.b_prose,
                        ix.avg_prose, ix.k1, [qb |-> qb.prose, idf |-> ts.idf])
  IN  AccPostings(a1, ts.code, 1, ix.len_code, ix.w_code, ix.b_code,
                  ix.avg_code, ix.k1, [qb |-> qb.code, idf |-> ts.idf])

\* a faulty variant of AlreadySeen: no deduplication of query terms
AlreadySeenNever(seen_terms, term) == FALSE

\* !seen_terms.insert(term)
AlreadySeen(seen_terms, term) == term \in seen_terms

\* the loop over q_terms
RECURSIVE AccFrom(_, _, _, _, _)
AccFrom(ix, q, i, seen_terms, acc) ==
  IF i > Len(q) THEN acc
  ELSE LET term    == q[i][1]
           is_code == q[i][2]
       IN  IF AlreadySeen(seen_terms, term)
             THEN AccFrom(ix, q, i + 1, seen_terms, acc)
           ELSE IF term \notin DOMAIN ix.terms
             THEN AccFrom(ix, q, i + 1, seen_terms \cup {term}, acc)
           ELSE AccFrom(ix, q, i + 1, seen_terms \cup {term},
                        AccTerm(ix, acc, ix.terms[term], is_code))

\* acc: HashMap<doc, f64> at the end of the loops
ScoreAcc(ix, query) == AccFrom(ix, QueryTermsOf(query), 1, {}, << >>)

\* one posting's arithmetic divides by zero: dl / avg.max(1e-9),
\* w * tf / norm or (tfp * (k1 + 1)) / (tfp + k1)
PostingDividesByZero(w, b, tf, dl, avg, k1) ==
  \/ AvgFloor(avg).num = 0
  \/ NormOf(b, dl, avg) = 0
  \/ TfpOf(w, b, tf, dl, avg) + 10 * k1 = 0

\* score(query) divides by zero for a posting of a query term: one of its
\* f64 quotients is inf or NaN
DividesByZero(ix, query) ==
  LET qt == QueryTermsOf(query)
      dl(lens, doc) == IF doc \in DOMAIN lens THEN lens[doc] ELSE 0
  IN  \E i \in 1..Len(qt) :
         /\ qt[i][1] \in DOMAIN ix.terms
         /\ LET ts == ix.terms[qt[i][1]]
            IN  \/ \E j \in 1..Len(ts.prose) :
                      PostingDividesByZero(ix.w_prose, ix.b_prose, ts.prose[j].tf,
                                           dl(ix.len_prose, ts.prose[j].doc),
                                           ix.avg_prose, ix.k1)
                \/ \E j \in 1..Len(ts.code) :
                      PostingDividesByZero(ix.w_code, ix.b_code, ts.code[j].tf,
                                           dl(ix.len_code, ts.code[j].doc),
                                           ix.avg_code, ix.k1)

\* what a score call is recorded with: "ok" when every quotient is finite
ScoreOutcome(ix, query) ==
  IF DividesByZero(ix, query) THEN "non-finite" ELSE "ok"

\* a faulty variant of CmpLess: ascending order
CmpLessAscending(a, b) == a[2] < b[2]

\* the comparator |a, b| b.1.total_cmp(&a.1) returns Less
CmpLess(a, b) == b[2] < a[2]

\* x put into the sorted sequence s, behind every element not after it
RECURSIVE InsertSorted(_, _)
InsertSorted(s, x) ==
  IF s = <<>> THEN <<x>>
  ELSE IF CmpLess(x, Head(s)) THEN <<x>> \o s
  ELSE <<Head(s)>> \o InsertSorted(Tail(s), x)

RECURSIVE SortFrom(_, _, _)
SortFrom(v, i, out) ==
  IF i > Len(v) THEN out ELSE SortFrom(v, i + 1, InsertSorted(out, v[i]))

\* a faulty variant of sort_unstable_by: the vector is left as collected
sort_not_at_all(v) == v

\* v.sort_unstable_by(...)
sort_unstable_by(v) == SortFrom(v, 1, <<>>)

\* the sequences that enumerate the set S once each (a HashMap's iteration
\* order is any of them)
Orders(S) ==
  {o \in [1..Cardinality(S) -> S] : \A i, j \in DOMAIN o : i # j => o[i] # o[j]}

\* acc.into_iter().collect() in the iteration order given, then the sort
Ranked(acc, order) ==
  sort_unstable_by([i \in 1..Len(order) |-> <<order[i], acc[order[i]]>>])

\* score, with order the iteration order of acc.into_iter()
score(ix, query, order) == Ranked(ScoreAcc(ix, query), order)

(***************************************************************************)
(* The index as a state machine: any sequence of add_doc, finalize, score  *)
(***************************************************************************)
VARIABLES
  index,      \* the Index
  finalized,  \* history: finalize has been called on the index
  last        \* history: the latest call, its arguments and what it returned
              \* (outcome: "ok", "panic", or "non-finite" for a score call one
              \* of whose quotients has a zero divisor); clean: finalize has
              \* been called and no document added since; again: the call
              \* is a finalize of an index that was clean; prev: what the
              \* call before returned, if it was a score of the same query

NoCall ==
  [op |-> "new", doc_id |-> 0, query |-> <<>>, outcome |-> "ok", res |-> <<>>,
   clean |-> FALSE, again |-> FALSE, prev |-> <<>>]

InitIndex ==
  /\ index = IndexNew(120)
  /\ finalized = FALSE
  /\ last = NoCall

\* add_doc(doc_id, text): panics on a duplicate, before any change
AddDoc(doc_id, text) ==
  IF DuplicateDoc(index, doc_id)
    THEN /\ last' = [NoCall EXCEPT !.op = "add_doc", !.doc_id = doc_id,
                                   !.outcome = "panic", !.clean = last.clean]
         /\ UNCHANGED <<index, finalized>>
    ELSE /\ index' = InsertDoc(index, doc_id, text)
         /\ last' = [NoCall EXCEPT !.op = "add_doc", !.doc_id = doc_id]
         /\ UNCHANGED finalized

Finalize ==
  /\ index' = finalize(index)
  /\ finalized' = TRUE
  /\ last' = [NoCall EXCEPT !.op = "finalize", !.clean = TRUE,
                            !.again = last.clean]

\* the result of the call before, if that was a score call with this query
PrevResult(query) ==
  IF last.op = "score" /\ last.query = query THEN <<last.res>> ELSE <<>>

\* a faulty variant of Score: the aggregates are brought up to date by the query
ScoreFinalizing(query) ==
  LET acc == ScoreAcc(finalize(index), query)
  IN  /\ \E order \in Orders(DOMAIN acc) :
            last' = [NoCall EXCEPT !.op = "score", !.query = query,
                                   !.outcome = ScoreOutcome(finalize(index), query),
                                   !.res = Ranked(acc, order),
                                   !.clean = last.clean,
                                   !.prev = PrevResult(query)]
      /\ index' = finalize(index)
      /\ UNCHANGED finalized

\* score(&self, query); the iteration order of acc is any order
Score(query) ==
  LET acc == ScoreAcc(index, query)
  IN  /\ \E order \in Orders(DOMAIN acc) :
            last' = [NoCall EXCEPT !.op = "score", !.query = query,
                                   !.outcome = ScoreOutcome(index, query),
                                   !.res = Ranked(acc, order),
                                   !.clean = last.clean,
                                   !.prev = PrevResult(query)]
      /\ UNCHANGED <<index, finalized>>

\* the identifiers add_doc is called with: one already present, or the next
AddDocIds ==
  DOMAIN index.len_prose
    \cup (IF Cardinality(DOMAIN index.len_prose) < MaxDocs
            THEN {Cardinality(DOMAIN index.len_prose) + 1} ELSE {})

NextIndex ==
  \/ \E doc_id \in AddDocIds, text \in Texts : AddDoc(doc_id, text)
  \/ Finalize
  \/ \E query \in Queries : Score(query)

(***************************************************************************)
(* The MCP server's shared index: static INDEX: LazyLock<Index>, built on  *)
(* first use by whichever worker thread calls search first                 *)
(***************************************************************************)
VARIABLES
  once,      \* the LazyLock's state: "Incomplete", "Running", "Complete", "Poisoned"
  wpc,       \* where each worker thread is
  initNext,  \* in the initializer: the number of the next chapter to add
  inits      \* history: how many times the initializer has been started

\* server.rs: const NUM_WORKERS
NUM_WORKERS == 4

Workers == 1..NUM_WORKERS

\* the chapters create_handbook! registers, in order: chapter i has the URI
\* ChapterUri(i) and the text ChapterTexts[i]
ChapterTexts == <<TextErrorBoth, TextErrors, TextPath, TextErrors, TextNoTokens>>

NumChapters == MaxDocs

\* the file_path of each chapter, in the order of create_handbook!
ChapterPaths ==
  <<"/handbook/src/introduction.md", "/handbook/src/program-structure.md",
    "/handbook/src/state-storage.md", "/handbook/src/access-control.md",
    "/handbook/src/external-calls.md">>

\* concat!("file://", $file_path)
ChapterUri(i) == <<"file://", ChapterPaths[i]>>

\* Option::None
None == [some |-> FALSE]

\* a faulty variant of get_resource: the match arms are the bare file paths
get_resource_by_path(uri) ==
  IF \E i \in 1..NumChapters : uri = <<ChapterPaths[i]>>
    THEN LET i == CHOOSE j \in 1..NumChapters : uri = <<ChapterPaths[j]>>
         IN  [some |-> TRUE, uri |-> ChapterUri(i), text |-> ChapterTexts[i]]
    ELSE None

\* get_resource: one match arm per chapter, on its URI; Some(content()) with
\* the chapter's URI and CONTENT
get_resource(uri) ==
  IF \E i \in 1..NumChapters : uri = ChapterUri(i)
    THEN LET i == CHOOSE j \in 1..NumChapters : uri = ChapterUri(j)
         IN  [some |-> TRUE, uri |-> ChapterUri(i), text |-> ChapterTexts[i]]
    ELSE None

\* search: the identifiers of the score result, in its order
search_uris(res) == [i \in 1..Len(res) |-> res[i][1]]

InitServer ==
  /\ once = "Incomplete"
  /\ wpc = [w \in Workers |-> "idle"]
  /\ initNext = 0
  /\ inits = 0

\* a worker takes a search_handbook request and calls search
CallSearch(w) ==
  /\ wpc[w] = "idle"
  /\ wpc' = [wpc EXCEPT ![w] = "force"]
  /\ UNCHANGED <<index, finalized, last, once, initNext, inits>>

\* a faulty variant of LazyForce: no exclusion between threads that find the index
\* not yet built
LazyForceUnsynchronized(w) ==
  /\ wpc[w] = "force"
  /\ IF once = "Complete"
       THEN /\ wpc' = [wpc EXCEPT ![w] = "score"]
            /\ UNCHANGED <<index, finalized, last, once, initNext, inits>>
       ELSE /\ once' = "Running"
            /\ wpc' = [wpc EXCEPT ![w] = "init"]
            /\ index' = IndexNew(120)
            /\ initNext' = 1
            /\ inits' = inits + 1
            /\ UNCHANGED <<finalized, last>>

\* the dereference of INDEX (LazyLock::force): the first thread runs the
\* initializer, a thread that finds it running waits, a thread that finds it
\* complete goes on
LazyForce(w) ==
  /\ wpc[w] = "force"
  /\ CASE once = "Incomplete" ->
            /\ once' = "Running"
            /\ wpc' = [wpc EXCEPT ![w] = "init"]
            /\ index' = IndexNew(120)
            /\ initNext' = 1
            /\ inits' = inits + 1
            /\ UNCHANGED <<finalized, last>>
       [] once = "Running" ->
            /\ wpc' = [wpc EXCEPT ![w] = "wait"]
            /\ UNCHANGED <<index, finalized, last, once, initNext, inits>>
       [] once = "Complete" ->
            /\ wpc' = [wpc EXCEPT ![w] = "score"]
            /\ UNCHANGED <<index, finalized, last, once, initNext, inits>>
       [] OTHER ->
            /\ wpc' = [wpc EXCEPT ![w] = "panicked"]
            /\ UNCHANGED <<index, finalized, last, once, initNext, inits>>

\* the initializer: index.add_doc(uri, CONTENT) for the next chapter; a panic
\* poisons the LazyLock
InitAddDoc(w) ==
  /\ wpc[w] = "init"
  /\ initNext <= NumChapters
  /\ IF DuplicateDoc(index, ChapterUri(initNext))
       THEN /\ once' = "Poisoned"
            /\ wpc' = [wpc EXCEPT ![w] = "panicked"]
            /\ last' = [NoCall EXCEPT !.op = "add_doc",
                                      !.doc_id = ChapterUri(initNext),
                                      !.outcome = "panic"]
            /\ UNCHANGED <<index, finalized, initNext, inits>>
       ELSE /\ index' = InsertDoc(index, ChapterUri(initNext),
                                  ChapterTexts[initNext])
            /\ last' = [NoCall EXCEPT !.op = "add_doc",
                                      !.doc_id = ChapterUri(initNext)]
            /\ initNext' = initNext + 1
            /\ UNCHANGED <<finalized, once, wpc, inits>>

\* the initializer: index.finalize() after the last chapter
InitFinalize(w) ==
  /\ wpc[w] = "init"
  /\ initNext > NumChapters
  /\ index' = finalize(index)
  /\ finalized' = TRUE
  /\ last' = [NoCall EXCEPT !.op = "finalize"]
  /\ wpc' = [wpc EXCEPT ![w] = "built"]
  /\ UNCHANGED <<once, initNext, inits>>

\* the initializer returns the index: the LazyLock is complete
InitPublish(w) ==
  /\ wpc[w] = "built"
  /\ once' = "Complete"
  /\ wpc' = [wpc EXCEPT ![w] = "score"]
  /\ UNCHANGED <<index, finalized, last, initNext, inits>>

\* a thread that waited for the initializer goes on once it is complete
WaitDone(w) ==
  /\ wpc[w] = "wait"
  /\ once = "Complete"
  /\ wpc' = [wpc EXCEPT ![w] = "score"]
  /\ UNCHANGED <<index, finalized, last, once, initNext, inits>>

\* search: INDEX.score(query), for the query of the request
SearchScore(w, query) ==
  /\ wpc[w] = "score"
  /\ LET acc == ScoreAcc(index, query)
     IN  \E order \in Orders(DOMAIN acc) :
            last' = [NoCall EXCEPT !.op = "score", !.query = query,
                                   !.outcome = ScoreOutcome(index, query),
                                   !.res = Ranked(acc, order)]
  /\ wpc' = [wpc EXCEPT ![w] = "idle"]
  /\ UNCHANGED <<index, finalized, once, initNext, inits>>

NextServer ==
  \E w \in Workers :
     \/ CallSearch(w)
     \/ LazyForce(w)
     \/ InitAddDoc(w)
     \/ InitFinalize(w)
     \/ InitPublish(w)
     \/ WaitDone(w)
     \/ \E query \in Queries : SearchScore(w, query)

(***************************************************************************)
(* The functions on tokens, applied to a token drawn from bounded sets     *)
(***************************************************************************)
VARIABLES
  arg,  \* the token
  ret   \* the latest function applied to it and what it returned

\* the longest input made of InputChars
MaxIdentLen == 4

\* the longest run of x a word-like token starts with
MaxStemLen == 3

\* the longest ending made of SuffixChars a word-like token has
MaxSuffixLen == 4

\* letters, a digit, the three other characters a token keeps, and two
\* characters tokenize_raw splits on
InputChars == {"A", "B", "a", "1", "_", ":", "!", " ", "'"}

SuffixChars == {"i", "e", "s", "n", "g", "d"}

\* "HTTPRequest"
TokHTTPRequest == <<"H", "T", "T", "P", "R", "e", "q", "u", "e", "s", "t">>

\* "ParseHttpRequest"
TokParseHttpRequest ==
  <<"P", "a", "r", "s", "e", "H", "t", "t", "p", "R", "e", "q", "u", "e", "s", "t">>

\* "parse_http_request"
TokParseHttpRequestSnake ==
  <<"p", "a", "r", "s", "e", "_", "h", "t", "t", "p", "_",
    "r", "e", "q", "u", "e", "s", "t">>

\* "dogs", "dog"
TokDogs == <<"d", "o", "g", "s">>

TokDog == <<"d", "o", "g">>

IdentTokens == UNION {[1..k -> InputChars] : k \in 0..MaxIdentLen}

\* a keyword with its first letter in uppercase
Capitalised(kw) ==
  <<UpperSeq[CHOOSE i \in 1..Len(LowerSeq) : LowerSeq[i] = kw[1]]>> \o Tail(kw)

\* the keywords of the noise filter, as they are and capitalised
KeywordTokens == KW \cup {Capitalised(kw) : kw \in KW}

WordTokens ==
  {[i \in 1..k |-> "x"] \o suf :
     k \in 0..MaxStemLen,
     suf \in UNION {[1..n -> SuffixChars] : n \in 0..MaxSuffixLen}}

Tokens ==
  IdentTokens \cup WordTokens \cup KeywordTokens
    \cup {TokHTTPRequest, TokParseHttpRequest, TokParseHttpRequestSnake,
          TokDogs, TokDog}

\* nothing has been applied to the token yet; each behaviour applies one
\* function to one token
NoRet == [fn |-> "none", val |-> <<>>]

\* no token function is being looked at
InitNoToken ==
  /\ arg = <<>>
  /\ ret = NoRet

InitToken ==
  /\ arg \in Tokens
  /\ ret = NoRet

ApplySplitIdentifier ==
  /\ ret = NoRet
  /\ ret' = [fn |-> "split_identifier", val |-> split_identifier(arg)]
  /\ UNCHANGED <<arg, index, finalized, last, once, wpc, initNext, inits>>

ApplyNormalizeProse ==
  /\ ret = NoRet
  /\ ret' = [fn |-> "normalize_prose", val |-> normalize_prose(arg)]
  /\ UNCHANGED <<arg, index, finalized, last, once, wpc, initNext, inits>>

ApplyIsNoiseCodeToken ==
  /\ ret = NoRet
  /\ ret' = [fn |-> "is_noise_code_token", val |-> is_noise_code_token(arg)]
  /\ UNCHANGED <<arg, index, finalized, last, once, wpc, initNext, inits>>

ApplyLooksCode ==
  /\ ret = NoRet
  /\ ret' = [fn |-> "looks_code", val |-> looks_code(arg)]
  /\ UNCHANGED <<arg, index, finalized, last, once, wpc, initNext, inits>>

ApplyTokenizeRaw ==
  /\ ret = NoRet
  /\ ret' = [fn |-> "tokenize_raw", val |-> tokenize_raw(arg)]
  /\ UNCHANGED <<arg, index, finalized, last, once, wpc, initNext, inits>>

\* the token loop of add_doc on the text arg: the terms counted per field
ApplyAddDocTerms ==
  /\ ret = NoRet
  /\ ret' = [fn |-> "add_doc", val |-> FieldTerms(arg)]
  /\ UNCHANGED <<arg, index, finalized, last, once, wpc, initNext, inits>>

\* the token loop of score on the query arg: q_terms
ApplyQTerms ==
  /\ ret = NoRet
  /\ ret' = [fn |-> "score", val |-> q_terms(arg)]
  /\ UNCHANGED <<arg, index, finalized, last, once, wpc, initNext, inits>>

ApplySplitCamelAcronyms ==
  /\ ret = NoRet
  /\ ret' = [fn |-> "split_camel_acronyms", val |-> split_camel_acronyms(arg)]
  /\ UNCHANGED <<arg, index, finalized, last, once, wpc, initNext, inits>>

NextToken ==
  \/ ApplySplitCamelAcronyms
  \/ ApplySplitIdentifier
  \/ ApplyNormalizeProse
  \/ ApplyIsNoiseCodeToken
  \/ ApplyLooksCode
  \/ ApplyTokenizeRaw
  \/ ApplyAddDocTerms
  \/ ApplyQTerms

(***************************************************************************)
(* The contract generators of tools.rs.  A package name is a sequence of    *)
(* characters; a generated text is the sequence of the template's pieces    *)
(* and the characters put between them.                                     *)
(***************************************************************************)
\* the length limit of invalid_package_name
MAX_PACKAGE_NAME_LEN == 64

\* a character outside ASCII, two bytes in UTF-8
EAcute == "U+00E9"

NameChars == {"a", "Z", "7", "-", "_", "\"", "\n", " ", EAcute}

\* the greatest number of characters that follow the padding of a name
MaxNameTail == 2

\* n times the letter a
Pad(n) == [i \in 1..n |-> "a"]

PadLens == {0, 63, 64}

NameTails == UNION {[1..k -> NameChars] : k \in 0..MaxNameTail}

\* the package names the generators are called with: up to 66 characters
PackageNames == {Pad(n) \o tl : n \in PadLens, tl \in NameTails}

\* str::len: the number of bytes of the UTF-8 encoding
ByteLen(str) == Len(str) + Cardinality({i \in 1..Len(str) : str[i] = EAcute})

\* char::is_ascii_alphanumeric
is_ascii_alphanumeric(c) == c \in Upper \cup Lower \cup Digit

\* a faulty variant: names of 65 bytes pass
invalid_package_name_len_65(package_name) ==
  \/ package_name = <<>>
  \/ ByteLen(package_name) > MAX_PACKAGE_NAME_LEN + 1
  \/ ~(\A i \in 1..Len(package_name) :
         is_ascii_alphanumeric(package_name[i])
           \/ package_name[i] = "-" \/ package_name[i] = "_")

invalid_package_name(package_name) ==
  \/ package_name = <<>>
  \/ ByteLen(package_name) > MAX_PACKAGE_NAME_LEN
  \/ ~(\A i \in 1..Len(package_name) :
         is_ascii_alphanumeric(package_name[i])
           \/ package_name[i] = "-" \/ package_name[i] = "_")

INVALID_PACKAGE_NAME_MSG == "invalid package name - must be non-empty, not longer than 64 characters and only contain ASCII alphanumerics, hyphens & underscores"

\* CallResponse::success
success(content) == [content |-> content, is_error |-> FALSE]

\* CallResponse::error
error(msg) == [content |-> <<msg>>, is_error |-> TRUE]

\* the template of the manifest before and after the name; the versions in
\* it come from the environment, not from the call
ManifestHead == "[package] name = \""

ManifestTail == "\" version = ... motsu = ..."

\* the template of main.rs before and after the name
MainRsHead == "#![cfg_attr ... fn main() { "

MainRsTail == "::print_from_args(); }"

TemplatePieces == {ManifestHead, ManifestTail, MainRsHead, MainRsTail}

generate_stylus_contract_cargo_manifest(package_name) ==
  IF invalid_package_name(package_name) THEN error(INVALID_PACKAGE_NAME_MSG)
  ELSE success(<<ManifestHead>> \o package_name \o <<ManifestTail>>)

\* package_name.replace("-", "_")
ReplaceHyphens(str) ==
  [i \in 1..Len(str) |-> IF str[i] = "-" THEN "_" ELSE str[i]]

generate_stylus_contract_main_rs(package_name) ==
  IF invalid_package_name(package_name) THEN error(INVALID_PACKAGE_NAME_MSG)
  ELSE success(<<MainRsHead>> \o ReplaceHyphens(package_name) \o <<MainRsTail>>)

InitTool ==
  /\ arg \in PackageNames
  /\ ret = NoRet

ApplyGenerateCargoManifest ==
  /\ ret = NoRet
  /\ ret' = [fn |-> "generate_stylus_contract_cargo_manifest",
             val |-> generate_stylus_contract_cargo_manifest(arg)]
  /\ UNCHANGED <<arg, index, finalized, last, once, wpc, initNext, inits>>

ApplyGenerateMainRs ==
  /\ ret = NoRet
  /\ ret' = [fn |-> "generate_stylus_contract_main_rs",
             val |-> generate_stylus_contract_main_rs(arg)]
  /\ UNCHANGED <<arg, index, finalized, last, once, wpc, initNext, inits>>

NextTool ==
  \/ ApplyGenerateCargoManifest
  \/ ApplyGenerateMainRs

(***************************************************************************)
(* WorkQueue<T> (server.rs): a VecDeque and a shutdown flag behind a Mutex, *)
(* one Condvar for senders and receivers alike.  A thread holds the mutex   *)
(* from lock() to the wait or the return that releases it, so each such     *)
(* stretch is one step.  A thread in condvar.wait is "wait"; once notified  *)
(* (or woken spuriously) it is "woken" and goes on when it gets the mutex.  *)
(***************************************************************************)
VARIABLES
  wq,        \* Inner: [queue, shutdown]
  capacity,  \* the capacity the queue was made with
  thr,       \* each thread: where it is, the item it sends, what it got
  enq,       \* history: the items pushed, in the order of the pushes
  deq,       \* history: the items popped, in the order of the pops
  nextItem   \* the next item a send is called with

\* the greatest capacity a queue is made with
MaxCapacity == 2

\* the number of send calls made in all
MaxItems == 3

Senders == {"s1", "s2"}

Receivers == {"r1", "r2"}

Threads == Senders \cup Receivers

Idle == [pc |-> "idle", item |-> 0, ret |-> "none"]

\* WorkQueue::new(capacity), capacity > 0
InitQueue ==
  /\ capacity \in 1..MaxCapacity
  /\ wq = [queue |-> <<>>, shutdown |-> FALSE]
  /\ thr = [t \in Threads |-> Idle]
  /\ enq = <<>>
  /\ deq = <<>>
  /\ nextItem = 1

\* no queue is being looked at
InitNoQueue ==
  /\ capacity = 1
  /\ wq = [queue |-> <<>>, shutdown |-> FALSE]
  /\ thr = [t \in Threads |-> Idle]
  /\ enq = <<>>
  /\ deq = <<>>
  /\ nextItem = 1

\* the threads inside condvar.wait
Waiting(th) == {u \in DOMAIN th : th[u].pc = "wait"}

\* condvar.notify_one(): any one of the waiting threads is woken, none if
\* none waits; the thread states that can result from th
NotifyOne(th) ==
  IF Waiting(th) = {} THEN {th}
  ELSE {[th EXCEPT ![u].pc = "woken"] : u \in Waiting(th)}

\* a faulty variant: shutdown wakes one waiting thread only
NotifyAllWakesOne(th) ==
  IF Waiting(th) = {} THEN th
  ELSE [th EXCEPT ![CHOOSE u \in Waiting(th) : TRUE].pc = "woken"]

\* condvar.notify_all()
NotifyAll(th) ==
  [u \in DOMAIN th |-> IF th[u].pc = "wait" THEN [th[u] EXCEPT !.pc = "woken"]
                       ELSE th[u]]

\* a faulty variant: the item goes to the front
push_front(queue, item) == <<item>> \o queue

\* VecDeque::push_back
push_back(queue, item) == Append(queue, item)

\* a faulty variant: the front item is returned and stays in the queue
pop_front_keeps(queue) == [item |-> Head(queue), rest |-> queue]

\* VecDeque::pop_front on a queue that is not empty
pop_front(queue) == [item |-> Head(queue), rest |-> Tail(queue)]

\* a faulty variant: the queue counts as full one item later
SendWaitsOffByOne(inner) == Len(inner.queue) > capacity /\ ~inner.shutdown

\* the condition of send's while loop
SendWaits(inner) == Len(inner.queue) >= capacity /\ ~inner.shutdown

\* a faulty variant: shutdown is looked at before the queue
RecvOutcomeShutdownFirst(inner) ==
  IF inner.shutdown THEN "None"
  ELSE IF inner.queue # <<>> THEN "some"
  ELSE "wait"

\* what one turn of recv's loop comes to: the front item, None, or a wait
RecvOutcome(inner) ==
  IF inner.queue # <<>> THEN "some"
  ELSE IF inner.shutdown THEN "None"
  ELSE "wait"

\* send from the lock (or from the wake-up inside the loop) on: wait while
\* the queue is full and not shut down, return at once after shutdown, else
\* push the item and notify one thread
SendBody(t, item) ==
  IF SendWaits(wq)
    THEN /\ thr' = [thr EXCEPT ![t] = [pc |-> "wait", item |-> item, ret |-> "none"]]
         /\ UNCHANGED <<wq, enq, deq>>
  ELSE IF wq.shutdown
    THEN /\ thr' = [thr EXCEPT ![t] = [pc |-> "idle", item |-> item, ret |-> "dropped"]]
         /\ UNCHANGED <<wq, enq, deq>>
  ELSE /\ wq' = [wq EXCEPT !.queue = push_back(wq.queue, item)]
       /\ enq' = Append(enq, item)
       /\ thr' \in NotifyOne([thr EXCEPT ![t] = [pc |-> "idle", item |-> item,
                                                 ret |-> "sent"]])
       /\ UNCHANGED deq

\* a sender calls send with the next item
SendCall(t) ==
  /\ t \in Senders
  /\ thr[t].pc = "idle"
  /\ nextItem <= MaxItems
  /\ nextItem' = nextItem + 1
  /\ SendBody(t, nextItem)
  /\ UNCHANGED capacity

\* a sender woken inside condvar.wait has the mutex again
SendResume(t) ==
  /\ t \in Senders
  /\ thr[t].pc = "woken"
  /\ SendBody(t, thr[t].item)
  /\ UNCHANGED <<capacity, nextItem>>

\* recv from the lock (or from the wake-up inside the loop) on: pop the front
\* item and notify one thread, else return None after shutdown, else wait
RecvBody(t) ==
  IF RecvOutcome(wq) = "some"
    THEN /\ wq' = [wq EXCEPT !.queue = pop_front(wq.queue).rest]
         /\ deq' = Append(deq, pop_front(wq.queue).item)
         /\ thr' \in NotifyOne([thr EXCEPT ![t] = [pc |-> "idle",
                                                   item |-> pop_front(wq.queue).item,
                                                   ret |-> "some"]])
         /\ UNCHANGED enq
  ELSE IF RecvOutcome(wq) = "None"
    THEN /\ thr' = [thr EXCEPT ![t] = [pc |-> "idle", item |-> 0, ret |-> "None"]]
         /\ UNCHANGED <<wq, enq, deq>>
  ELSE /\ thr' = [thr EXCEPT ![t] = [pc |-> "wait", item |-> 0, ret |-> "none"]]
       /\ UNCHANGED <<wq, enq, deq>>

RecvCall(t) ==
  /\ t \in Receivers
  /\ thr[t].pc = "idle"
  /\ RecvBody(t)
  /\ UNCHANGED <<capacity, nextItem>>

RecvResume(t) ==
  /\ t \in Receivers
  /\ thr[t].pc = "woken"
  /\ RecvBody(t)
  /\ UNCHANGED <<capacity, nextItem>>

\* shutdown(), called by the thread that owns the queue
Shutdown ==
  /\ wq' = [wq EXCEPT !.shutdown = TRUE]
  /\ thr' = NotifyAll(thr)
  /\ UNCHANGED <<capacity, enq, deq, nextItem>>

\* condvar.wait may return without a notification
SpuriousWake(t) ==
  /\ thr[t].pc = "wait"
  /\ thr' = [thr EXCEPT ![t].pc = "woken"]
  /\ UNCHANGED <<wq, capacity, enq, deq, nextItem>>

NextQueue ==
  \/ \E t \in Threads :
        \/ SendCall(t)
        \/ SendResume(t)
        \/ RecvCall(t)
        \/ RecvResume(t)
        \/ SpuriousWake(t)
  \/ Shutdown

(***************************************************************************)
(* start (server.rs): the calling thread reads lines and sends the parsed   *)
(* messages to a WorkQueue, the worker threads receive them and call        *)
(* work_fn, which sends its output over an mpsc channel to the thread that  *)
(* writes it.  The queue is wq.  The code spawns NUM_WORKERS workers on a   *)
(* queue of capacity NUM_WORKERS * 2; here MaxWorkers workers run on a      *)
(* queue of capacity MaxWorkers * 2, the same proportion.  work_fn is       *)
(* handle_client_msg (main.rs), which returns after sending one line of     *)
(* output or none.                                                          *)
(***************************************************************************)
VARIABLES
  sthr,     \* each thread of start: where it is, and the message it holds
  sio,      \* parsed: the messages parsed so far; pending: those of the
            \* line read that are still to be sent; results: the lines in
            \* the result channel; eof: read_line has returned 0
  handled   \* history: for each message, the number of calls of work_fn
            \* with it

\* the number of worker threads start is run with
MaxWorkers == 2

\* the greatest number of messages parsed from the input
MaxMsgs == 6

\* the greatest number of messages in one line (a JSON-RPC batch)
MaxBatch == 2

\* the thread that calls start
Main == 0

\* the thread spawned for the results
Out == MaxWorkers + 1

\* the threads of `for _ in 0..NUM_WORKERS`
WorkerThreads == 1..MaxWorkers

StartThreads == {Main} \cup WorkerThreads \cup {Out}

At(pc, item) == [pc |-> pc, item |-> item]

\* the threads of start, the input and the result channel when the read
\* loop begins
InitThreads ==
  /\ sthr = [t \in StartThreads |->
               IF t = Main THEN At("read", 0) ELSE At("recv", 0)]
  /\ sio = [parsed |-> 0, pending |-> 0, results |-> 0, eof |-> FALSE]
  /\ handled = [m \in 1..MaxMsgs |-> 0]

\* start up to the read loop: WorkQueue::new(workers * 2), the channel,
\* the threads spawned
InitStart ==
  /\ capacity = MaxWorkers * 2
  /\ wq = [queue |-> <<>>, shutdown |-> FALSE]
  /\ thr = [t \in Threads |-> Idle]
  /\ enq = <<>>
  /\ deq = <<>>
  /\ nextItem = 1
  /\ InitThreads

\* the process is over: start has returned, and main after it
Returned == sthr[Main].pc \in {"done", "failed"}

\* work_queue.send(msg) from the lock (or from the wake-up) on; the for
\* loop goes on with the next message of the line, the while loop with the
\* next line
StartSend(item) ==
  IF SendWaits(wq)
    THEN /\ sthr' = [sthr EXCEPT ![Main] = At("wait", item)]
         /\ UNCHANGED wq
  ELSE IF wq.shutdown
    THEN /\ sthr' = [sthr EXCEPT ![Main] = At("read", 0)]
         /\ UNCHANGED wq
  ELSE /\ wq' = [wq EXCEPT !.queue = push_back(wq.queue, item)]
       /\ sthr' \in NotifyOne([sthr EXCEPT ![Main] = At("read", 0)])

\* reader.read_line returns a line: parse_fn gives None or no message, or
\* the n messages of the line, which the for loop starts to send
ReadLine(n) ==
  /\ sthr[Main].pc = "read"
  /\ sio.pending = 0
  /\ ~sio.eof
  /\ sio.parsed + n <= MaxMsgs
  /\ sio' = [sio EXCEPT !.parsed = sio.parsed + n, !.pending = n]
  /\ UNCHANGED <<wq, sthr, handled>>

\* the for loop calls send with the next message of the line
SendNext ==
  /\ sthr[Main].pc = "read"
  /\ sio.pending > 0
  /\ sio' = [sio EXCEPT !.pending = sio.pending - 1]
  /\ StartSend(sio.parsed - sio.pending + 1)
  /\ UNCHANGED handled

\* the reader, woken inside condvar.wait, has the mutex again
SendWoken ==
  /\ sthr[Main].pc = "woken"
  /\ StartSend(sthr[Main].item)
  /\ UNCHANGED <<sio, handled>>

\* read_line returns an error: start returns it, main reports it and the
\* process ends with the other threads where they are
ReadError ==
  /\ sthr[Main].pc = "read"
  /\ sio.pending = 0
  /\ ~sio.eof
  /\ sthr' = [sthr EXCEPT ![Main] = At("failed", 0)]
  /\ UNCHANGED <<wq, sio, handled>>

\* read_line returns 0: the loop ends
EndOfInput ==
  /\ sthr[Main].pc = "read"
  /\ sio.pending = 0
  /\ ~sio.eof
  /\ sio' = [sio EXCEPT !.eof = TRUE]
  /\ UNCHANGED <<wq, sthr, handled>>

\* work_queue.shutdown()
StartShutdown ==
  /\ sthr[Main].pc = "read"
  /\ sio.eof
  /\ wq' = [wq EXCEPT !.shutdown = TRUE]
  /\ sthr' = NotifyAll([sthr EXCEPT ![Main] = At("join", 0)])
  /\ UNCHANGED <<sio, handled>>

\* the joins of the worker handles and of the result handle return once
\* those threads have ended; start returns Ok
JoinAll ==
  /\ sthr[Main].pc = "join"
  /\ \A t \in WorkerThreads \cup {Out} : sthr[t].pc \in {"exit", "error"}
  /\ sthr' = [sthr EXCEPT ![Main] = At("done", 0)]
  /\ UNCHANGED <<wq, sio, handled>>

\* work_queue.recv() in a worker, from the lock (or from the wake-up) on:
\* a message to call work_fn with, None and the end of the thread, which
\* drops its result sender, or a wait
WorkerRecv(w) ==
  /\ w \in WorkerThreads
  /\ sthr[w].pc \in {"recv", "woken"}
  /\ ~Returned
  /\ IF RecvOutcome(wq) = "some"
       THEN /\ wq' = [wq EXCEPT !.queue = pop_front(wq.queue).rest]
            /\ sthr' \in NotifyOne([sthr EXCEPT
                                      ![w] = At("work", pop_front(wq.queue).item)])
     ELSE IF RecvOutcome(wq) = "None"
       THEN /\ sthr' = [sthr EXCEPT ![w] = At("exit", 0)]
            /\ UNCHANGED wq
     ELSE /\ sthr' = [sthr EXCEPT ![w] = At("wait", 0)]
          /\ UNCHANGED wq
  /\ UNCHANGED <<sio, handled>>

\* work_fn(line, &mut OutputSink(..)): it sends n lines of output, which
\* are lost if the receiver is gone, and returns
Work(w, n) ==
  /\ w \in WorkerThreads
  /\ sthr[w].pc = "work"
  /\ ~Returned
  /\ handled' = [handled EXCEPT ![sthr[w].item] = @ + 1]
  /\ sio' = [sio EXCEPT !.results =
                 IF sthr[Out].pc = "recv" THEN sio.results + n ELSE sio.results]
  /\ sthr' = [sthr EXCEPT ![w] = At("recv", 0)]
  /\ UNCHANGED wq

\* a faulty variant: result_tx itself is never dropped
ResultSendersNotDropped ==
  {w \in WorkerThreads : sthr[w].pc # "exit"} \cup {Main}

\* the senders of the result channel that are left: result_tx is dropped
\* before the read loop, each worker's clone when the worker ends
ResultSenders == {w \in WorkerThreads : sthr[w].pc # "exit"}

\* result_rx.recv() returns a line and it is written, with or without an
\* error, which ends the thread and drops the receiver
WriteResult(ok) ==
  /\ sthr[Out].pc = "recv"
  /\ ~Returned
  /\ sio.results > 0
  /\ IF ok THEN /\ sio' = [sio EXCEPT !.results = sio.results - 1]
                /\ UNCHANGED sthr
           ELSE /\ sio' = [sio EXCEPT !.results = 0]
                /\ sthr' = [sthr EXCEPT ![Out] = At("error", 0)]
  /\ UNCHANGED <<wq, handled>>

\* result_rx.recv() returns Err: the channel is empty and no sender is left
ResultsClosed ==
  /\ sthr[Out].pc = "recv"
  /\ ~Returned
  /\ sio.results = 0
  /\ ResultSenders = {}
  /\ sthr' = [sthr EXCEPT ![Out] = At("exit", 0)]
  /\ UNCHANGED <<wq, sio, handled>>

\* condvar.wait returns in a thread of start without a notification
StartSpuriousWake(t) ==
  /\ sthr[t].pc = "wait"
  /\ ~Returned
  /\ sthr' = [sthr EXCEPT ![t].pc = "woken"]
  /\ UNCHANGED <<wq, sio, handled>>

\* the steps of the thread that calls start
MainStep ==
  \/ SendNext
  \/ SendWoken
  \/ StartShutdown
  \/ JoinAll

NextStart ==
  \/ \E n \in 0..MaxBatch : ReadLine(n)
  \/ ReadError
  \/ EndOfInput
  \/ MainStep
  \/ \E w \in WorkerThreads : WorkerRecv(w)
  \/ \E w \in WorkerThreads : \E n \in 0..1 : Work(w, n)
  \/ \E ok \in BOOLEAN : WriteResult(ok)
  \/ ResultsClosed
  \/ \E t \in StartThreads : StartSpuriousWake(t)

(***************************************************************************)
(* The token-vesting contract (case-studies/bonafida-token-vesting).  A      *)
(* call that returns Err or panics reverts: it leaves the storage and the   *)
(* token as they were, so each call is one step.  The token is an ERC-20    *)
(* that moves exactly the amount asked for or fails (openzeppelin_stylus'   *)
(* Erc20, the token of the tests); of its balances only the contract's own  *)
(* is kept.                                                                 *)
(***************************************************************************)
VARIABLES
  vest,   \* the contract's storage: schedule_count, token, owner,
          \* destination, schedule
  bal,    \* the contract's balance of each token
  now,    \* block_timestamp
  vhist,  \* history, for each schedule: the schedule create was called with
          \* (orig), how often each tranche was paid out (paid), the sum
          \* deposited (in) and the sum transferred out (out)
  vlast   \* history: the latest call, its sender, its arguments (to: the
          \* new destination or owner), what it returned and the amount
          \* it moved

\* the greatest block timestamp
MaxTime == 2

\* the greatest value of a U256, scaled down
U256_MAX == 6

ZERO == "0x0"

Users == {"alice", "bob"}

Addresses == {ZERO} \cup Users

\* the token contracts
TokenAddrs == {"token"}

\* the identifiers of the schedules created: schedule_count goes up to 2
ScheduleIds == {1, 2}

Tranche(timestamp, amount) == [timestamp |-> timestamp, amount |-> amount]

\* the schedules create is called with
SchedEmpty == <<>>

SchedOne == <<Tranche(1, 1)>>

SchedTwo == <<Tranche(0, 1), Tranche(2, 2)>>

SchedSameTime == <<Tranche(1, 2), Tranche(1, 1)>>

SchedZeroAmount == <<Tranche(0, 1), Tranche(1, 0)>>

SchedUnordered == <<Tranche(2, 1), Tranche(1, 1)>>

SchedOverflow == <<Tranche(1, U256_MAX), Tranche(2, 1)>>

Schedules ==
  {SchedEmpty, SchedOne, SchedTwo, SchedSameTime, SchedZeroAmount, SchedUnordered,
   SchedOverflow}

\* storage before any call: every slot zero
VestingNew ==
  [schedule_count |-> 0,
   token          |-> [id \in ScheduleIds |-> ZERO],
   owner          |-> [id \in ScheduleIds |-> ZERO],
   destination    |-> [id \in ScheduleIds |-> ZERO],
   schedule       |-> [id \in ScheduleIds |-> <<>>]]

NoVestCall ==
  [op |-> "none", sender |-> ZERO, id |-> 0, to |-> ZERO, outcome |-> "Ok",
   amount |-> 0]

InitVesting ==
  /\ vest = VestingNew
  /\ bal = [t \in TokenAddrs |-> 0]
  /\ now = 0
  /\ vhist = [id \in ScheduleIds |-> [orig |-> <<>>, paid |-> <<>>, in |-> 0, out |-> 0]]
  /\ vlast = NoVestCall

\* the for loop of create over the items from i on: "InvalidSchedule" for a
\* zero amount, a timestamp before the one before it, or a total that
\* overflows; else the total
RECURSIVE ScheduleTotal(_, _, _, _)
ScheduleTotal(schedule, i, last_timestamp, total) ==
  IF i > Len(schedule) THEN [err |-> "Ok", total |-> total]
  ELSE IF schedule[i].amount = 0 \/ schedule[i].timestamp < last_timestamp
    THEN [err |-> "InvalidSchedule", total |-> 0]
  ELSE IF total + schedule[i].amount > U256_MAX
    THEN [err |-> "InvalidSchedule", total |-> 0]
  ELSE ScheduleTotal(schedule, i + 1, schedule[i].timestamp,
                     total + schedule[i].amount)

\* the call returns an error (or panics): nothing changes but the record of
\* the call
Reverts(call) ==
  /\ vlast' = call
  /\ UNCHANGED <<vest, bal, vhist>>

\* create(token, owner, destination, schedule) sent by sender; deposit_ok:
\* the token's transfer_from of the total from the sender succeeds
Create(sender, token, owner, destination, schedule, deposit_ok) ==
  LET call  == [NoVestCall EXCEPT !.op = "create", !.sender = sender]
      id    == vest.schedule_count + 1
      check == ScheduleTotal(schedule, 1, 0, 0)
  IN  /\ id \in ScheduleIds
      /\ UNCHANGED now
      /\ IF token = ZERO THEN Reverts([call EXCEPT !.outcome = "InvalidToken"])
         ELSE IF destination = ZERO
           THEN Reverts([call EXCEPT !.outcome = "InvalidDestination"])
         ELSE IF schedule = <<>> \/ check.err # "Ok"
           THEN Reverts([call EXCEPT !.outcome = "InvalidSchedule"])
         ELSE IF ~deposit_ok \/ bal[token] + check.total > U256_MAX
           THEN Reverts([call EXCEPT !.outcome = "TokenDepositTransferFailed"])
         ELSE /\ vest' = [vest EXCEPT !.schedule_count = id,
                                      !.token[id] = token,
                                      !.owner[id] = owner,
                                      !.destination[id] = destination,
                                      !.schedule[id] = vest.schedule[id] \o schedule]
              /\ bal' = [bal EXCEPT ![token] = bal[token] + check.total]
              /\ vhist' = [vhist EXCEPT ![id] =
                             [orig |-> schedule,
                              paid |-> [i \in 1..Len(schedule) |-> 0],
                              in   |-> check.total,
                              out  |-> 0]]
              /\ vlast' = [call EXCEPT !.id = id, !.amount = check.total]

\* a faulty variant of UnlockFrom: the amount of a paid item is left in the
\* storage
RECURSIVE UnlockFromKeepAmount(_, _, _, _)
UnlockFromKeepAmount(schedule, idx, t, acc) ==
  IF idx > Len(schedule) THEN acc
  ELSE IF schedule[idx].timestamp > t THEN acc
  ELSE IF schedule[idx].amount = 0
    THEN UnlockFromKeepAmount(schedule, idx + 1, t, acc)
  ELSE UnlockFromKeepAmount(schedule, idx + 1, t,
         [acc EXCEPT !.items = Append(acc.items, idx),
                     !.amount = acc.amount + schedule[idx].amount])

\* the loop of unlock from item idx on, at block time t: the schedule as the
\* loop leaves it, the items it paid and unlocked_token_amount
RECURSIVE UnlockFrom(_, _, _, _)
UnlockFrom(schedule, idx, t, acc) ==
  IF idx > Len(schedule) THEN acc
  ELSE IF schedule[idx].timestamp > t THEN acc
  ELSE IF schedule[idx].amount = 0 THEN UnlockFrom(schedule, idx + 1, t, acc)
  ELSE UnlockFrom(schedule, idx + 1, t,
         [acc EXCEPT !.schedule[idx].amount = 0,
                     !.items = Append(acc.items, idx),
                     !.amount = acc.amount + schedule[idx].amount])

\* unlock(schedule_id); the transfer panics when the balance is too small
Unlock(sender, schedule_id) ==
  LET call == [NoVestCall EXCEPT !.op = "unlock", !.sender = sender,
                                 !.id = schedule_id]
      token == vest.token[schedule_id]
      done == UnlockFrom(vest.schedule[schedule_id], 1, now,
                         [schedule |-> vest.schedule[schedule_id],
                          items |-> <<>>, amount |-> 0])
  IN  /\ UNCHANGED now
      /\ IF token = ZERO THEN Reverts([call EXCEPT !.outcome = "ScheduleNotFound"])
         ELSE IF done.amount = 0
           THEN Reverts([call EXCEPT !.outcome = "NoUnlocksAvailable"])
         ELSE IF bal[token] < done.amount
           THEN Reverts([call EXCEPT !.outcome = "panic"])
         ELSE /\ vest' = [vest EXCEPT !.schedule[schedule_id] = done.schedule]
              /\ bal' = [bal EXCEPT ![token] = bal[token] - done.amount]
              /\ vhist' = [vhist EXCEPT
                             ![schedule_id].paid =
                               [i \in DOMAIN vhist[schedule_id].paid |->
                                  vhist[schedule_id].paid[i]
                                    + Count(done.items, i)],
                             ![schedule_id].out =
                               vhist[schedule_id].out + done.amount]
              /\ vlast' = [call EXCEPT !.amount = done.amount]

\* a faulty variant of IsOwner: every sender passes once the owner is zero
IsOwnerOrRenounced(sender, schedule_id) ==
  sender = vest.owner[schedule_id] \/ vest.owner[schedule_id] = ZERO

\* msg_sender() == self.owner.get(schedule_id)
IsOwner(sender, schedule_id) == sender = vest.owner[schedule_id]

ChangeDestination(sender, schedule_id, new_destination) ==
  LET call == [NoVestCall EXCEPT !.op = "change_destination", !.sender = sender,
                                 !.id = schedule_id, !.to = new_destination]
  IN  /\ UNCHANGED now
      /\ IF new_destination = ZERO
           THEN Reverts([call EXCEPT !.outcome = "InvalidDestination"])
         ELSE IF vest.token[schedule_id] = ZERO
           THEN Reverts([call EXCEPT !.outcome = "ScheduleNotFound"])
         ELSE IF ~IsOwner(sender, schedule_id)
           THEN Reverts([call EXCEPT !.outcome = "Unauthorized"])
         ELSE /\ vest' = [vest EXCEPT !.destination[schedule_id] = new_destination]
              /\ vlast' = call
              /\ UNCHANGED <<bal, vhist>>

ChangeOwner(sender, schedule_id, new_owner) ==
  LET call == [NoVestCall EXCEPT !.op = "change_owner", !.sender = sender,
                                 !.id = schedule_id, !.to = new_owner]
  IN  /\ UNCHANGED now
      /\ IF vest.token[schedule_id] = ZERO
           THEN Reverts([call EXCEPT !.outcome = "ScheduleNotFound"])
         ELSE IF ~IsOwner(sender, schedule_id)
           THEN Reverts([call EXCEPT !.outcome = "Unauthorized"])
         ELSE /\ vest' = [vest EXCEPT !.owner[schedule_id] = new_owner]
              /\ vlast' = call
              /\ UNCHANGED <<bal, vhist>>

\* a later block
Tick ==
  /\ now < MaxTime
  /\ now' = now + 1
  /\ UNCHANGED <<vest, bal, vhist, vlast>>

\* a transaction's sender is never the zero address
NextVesting ==
  \/ \E sender \in Users, token \in {ZERO} \cup TokenAddrs, owner \in Addresses,
        destination \in Addresses, schedule \in Schedules, deposit_ok \in BOOLEAN :
        Create(sender, token, owner, destination, schedule, deposit_ok)
  \/ \E sender \in Users, schedule_id \in ScheduleIds : Unlock(sender, schedule_id)
  \/ \E sender \in Users, schedule_id \in ScheduleIds, new_destination \in Addresses :
        ChangeDestination(sender, schedule_id, new_destination)
  \/ \E sender \in Users, schedule_id \in ScheduleIds, new_owner \in Addresses :
        ChangeOwner(sender, schedule_id, new_owner)
  \/ Tick

(***************************************************************************)
(* The chat session of the command-line tool (cli/src/chat/session.rs):     *)
(* SessionCtx under the loop of session, which handles a key event if there *)
(* is one and then polls for the response.  Of the screen only the chat     *)
(* list is kept, not the scroll position or the throbber.                   *)
(***************************************************************************)
VARIABLES
  ctx,   \* SessionCtx: chat_status, chat_list_items (their kinds), and
         \* whether prompt_text_area is empty
  chan,  \* the channel of the worker held by ChatStatus::Waiting: "none"
         \* without a worker, "empty", or the result sent, "Ok" or "Err"
  sess   \* how the session stands ("on", "quit", "error", "panic"), the
         \* number of prompts sent, and history: a prompt was sent while
         \* the status was Waiting

\* the greatest number of prompts sent in a session
MaxPrompts == 3

Keys == {"Esc", "Up", "Down", "PageUp", "PageDown", "CtrlSpace", "Char", "Backspace"}

\* SessionCtx::init
InitSession ==
  /\ ctx = [chat_status |-> "Idle", chat_list_items |-> <<>>, prompt_empty |-> TRUE]
  /\ chan = "none"
  /\ sess = [state |-> "on", prompts |-> 0, sent_waiting |-> FALSE]

is_waiting(c) == c.chat_status = "Waiting"

\* cancel_spinner: the last item is popped and must be a spinner, else the
\* assertion fails; the worker is dropped with the status
cancel_spinner(c) ==
  IF c.chat_list_items # <<>>
       /\ c.chat_list_items[Len(c.chat_list_items)] = "Spinner"
    THEN [panic |-> FALSE,
          ctx |-> [c EXCEPT !.chat_status = "Idle",
                            !.chat_list_items =
                               SubSeq(c.chat_list_items, 1, Len(c.chat_list_items) - 1)]]
    ELSE [panic |-> TRUE,
          ctx |-> [c EXCEPT !.chat_list_items =
                               SubSeq(c.chat_list_items, 1, Len(c.chat_list_items) - 1)]]

\* send_user_message: the prompt is cut, a User item and a Spinner are
\* pushed, a worker is started and held by the status
send_user_message(c) ==
  [c EXCEPT !.prompt_empty = TRUE,
            !.chat_list_items = c.chat_list_items \o <<"User", "Spinner">>,
            !.chat_status = "Waiting"]

\* a faulty variant of CanSend: the status is not looked at
CanSendWhileWaiting(c) == ~c.prompt_empty

\* the guard of the Ctrl+Space arm
CanSend(c) == ~c.prompt_empty /\ ~is_waiting(c)

\* handle_key_event(key_event)
HandleKeyEvent(key) ==
  /\ sess.state = "on"
  /\ IF key = "Esc" /\ ~is_waiting(ctx)
       THEN /\ sess' = [sess EXCEPT !.state = "quit"]
            /\ UNCHANGED <<ctx, chan>>
     ELSE IF key = "Esc"
       THEN /\ ctx' = cancel_spinner(ctx).ctx
            /\ chan' = "none"
            /\ sess' = [sess EXCEPT !.state = IF cancel_spinner(ctx).panic
                                                THEN "panic" ELSE "on"]
     ELSE IF key \in {"Up", "Down", "PageUp", "PageDown"}
       THEN UNCHANGED <<ctx, chan, sess>>
     ELSE IF key = "CtrlSpace" /\ CanSend(ctx)
       THEN /\ sess.prompts < MaxPrompts
            /\ ctx' = send_user_message(ctx)
            /\ chan' = "empty"
            /\ sess' = [sess EXCEPT !.prompts = sess.prompts + 1,
                                    !.sent_waiting = sess.sent_waiting
                                                       \/ is_waiting(ctx)]
     ELSE /\ \E e \in (IF key = "Char" THEN {FALSE}
                        ELSE IF key = "Backspace" THEN {ctx.prompt_empty, TRUE}
                        ELSE {ctx.prompt_empty}) :
               ctx' = [ctx EXCEPT !.prompt_empty = e]
          /\ UNCHANGED <<chan, sess>>

\* the worker's llm::execute returns and its result is sent
WorkerSends ==
  /\ chan = "empty"
  /\ chan' \in {"Ok", "Err"}
  /\ UNCHANGED <<ctx, sess>>

\* check_for_response: nothing without a worker or a result; an Err result
\* is returned to session, which ends; an Ok result replaces the spinner
CheckForResponse ==
  /\ sess.state = "on"
  /\ IF ~is_waiting(ctx) \/ chan \in {"none", "empty"}
       THEN UNCHANGED <<ctx, chan, sess>>
     ELSE IF chan = "Err"
       THEN /\ sess' = [sess EXCEPT !.state = "error"]
            /\ chan' = "empty"
            /\ UNCHANGED ctx
     ELSE /\ ctx' = [cancel_spinner(ctx).ctx EXCEPT
                       !.chat_list_items =
                          Append(cancel_spinner(ctx).ctx.chat_list_items, "Llm")]
          /\ chan' = "none"
          /\ sess' = [sess EXCEPT !.state = IF cancel_spinner(ctx).panic
                                              THEN "panic" ELSE "on"]

NextSession ==
  \/ \E key \in Keys : HandleKeyEvent(key)
  \/ WorkerSends
  \/ CheckForResponse

(***************************************************************************)
(* Specifications                                                          *)
(***************************************************************************)
ixvars == <<index, finalized, last>>

srvars == <<once, wpc, initNext, inits>>

tkvars == <<arg, ret>>

qvars == <<wq, capacity, thr, enq, deq, nextItem>>

vvars == <<vest, bal, now, vhist, vlast>>

ssvars == <<ctx, chan, sess>>

stvars == <<sthr, sio, handled>>

vars == <<index, finalized, last, once, wpc, initNext, inits, arg, ret,
          wq, capacity, thr, enq, deq, nextItem, vest, bal, now, vhist, vlast,
          ctx, chan, sess, sthr, sio, handled>>

\* the parts of the repository a specification does not look at
InitRest == InitVesting /\ InitSession /\ InitThreads

Init == InitIndex /\ InitServer /\ InitNoToken /\ InitNoQueue /\ InitRest

\* the Index on its own, under any sequence of calls
Next == NextIndex /\ UNCHANGED <<srvars, tkvars, qvars, vvars, ssvars, stvars>>

Spec == Init /\ [][Next]_vars

\* the server's worker threads and the shared INDEX
NextShared == NextServer /\ UNCHANGED <<tkvars, qvars, vvars, ssvars, stvars>>

SpecServer == Init /\ [][NextShared]_vars

\* the token functions on every token of Tokens
InitTokens == InitIndex /\ InitServer /\ InitToken /\ InitNoQueue /\ InitRest

NextTokens == NextToken /\ UNCHANGED <<qvars, vvars, ssvars, stvars>>

SpecToken == InitTokens /\ [][NextTokens]_vars

\* the contract generators on every name of PackageNames
InitTools == InitIndex /\ InitServer /\ InitTool /\ InitNoQueue /\ InitRest

NextTools == NextTool /\ UNCHANGED <<qvars, vvars, ssvars, stvars>>

SpecTools == InitTools /\ [][NextTools]_vars

\* one WorkQueue, two senders, two receivers and its owner
InitQueues == InitIndex /\ InitServer /\ InitNoToken /\ InitQueue /\ InitRest

NextQueues == NextQueue /\ UNCHANGED <<ixvars, srvars, tkvars, vvars, ssvars, stvars>>

SpecQueue == InitQueues /\ [][NextQueues]_vars

\* a thread that was woken inside condvar.wait gets the mutex in the end; no
\* thread is bound to call send, recv or shutdown again, and no wait is bound
\* to end without a notification
QueueFairness ==
  \A t \in Threads :
    WF_vars((SendResume(t) \/ RecvResume(t))
              /\ UNCHANGED <<ixvars, srvars, tkvars, vvars, ssvars, stvars>>)

SpecQueueFair == InitQueues /\ [][NextQueues]_vars /\ QueueFairness

\* the token-vesting contract under any sequence of calls and blocks
InitVest ==
  InitIndex /\ InitServer /\ InitNoToken /\ InitNoQueue /\ InitVesting /\ InitSession
    /\ InitThreads

NextVest ==
  NextVesting /\ UNCHANGED <<ixvars, srvars, tkvars, qvars, ssvars, stvars>>

SpecVesting == InitVest /\ [][NextVest]_vars

\* the chat session under any sequence of key events, worker results and
\* polls
InitChat == InitIndex /\ InitServer /\ InitNoToken /\ InitNoQueue /\ InitRest

NextChat ==
  NextSession /\ UNCHANGED <<ixvars, srvars, tkvars, qvars, vvars, stvars>>

SpecSession == InitChat /\ [][NextChat]_vars

\* start: wq is the queue of the threads of start
InitStarts ==
  /\ InitIndex /\ InitServer /\ InitNoToken /\ InitVesting /\ InitSession
  /\ InitStart

NextStarts ==
  /\ NextStart
  /\ UNCHANGED <<ixvars, srvars, tkvars, vvars, ssvars,
                 capacity, thr, enq, deq, nextItem>>

SpecStart == InitStarts /\ [][NextStarts]_vars

\* the threads of start are scheduled: a thread that can take a step takes
\* one; nothing is asked of the input
StartFairness ==
  /\ WF_vars(MainStep /\ UNCHANGED <<ixvars, srvars, tkvars, vvars, ssvars,
                                      capacity, thr, enq, deq, nextItem>>)
  /\ \A w \in WorkerThreads :
        WF_vars((WorkerRecv(w) \/ \E n \in 0..1 : Work(w, n))
                /\ UNCHANGED <<ixvars, srvars, tkvars, vvars, ssvars,
                               capacity, thr, enq, deq, nextItem>>)
  /\ WF_vars(((\E ok \in BOOLEAN : WriteResult(ok)) \/ ResultsClosed)
             /\ UNCHANGED <<ixvars, srvars, tkvars, vvars, ssvars,
                            capacity, thr, enq, deq, nextItem>>)

SpecStartFair == InitStarts /\ [][NextStarts]_vars /\ StartFairness

(***************************************************************************)
(* Properties of add_doc, finalize and score                               *)
(***************************************************************************)
\* the documents of a score result, and the score of each
ResultDocs(res) == {res[i][1] : i \in 1..Len(res)}

ResultScores(res) ==
  [d \in ResultDocs(res) |-> res[CHOOSE i \in 1..Len(res) : res[i][1] = d][2]]

TermError == <<"e", "r", "r", "o", "r">>

\* C1: add_doc with a doc_id that is already in the corpus panics and leaves
\* the whole index (postings of both fields, both length maps) as it was,
\* also when the earlier document produced no token
C1_DuplicateRejected ==
  [][(last'.op = "add_doc" /\ last'.doc_id \in DOMAIN index.len_prose)
       => (last'.outcome = "panic" /\ index' = index)]_vars

\* a duplicate add_doc has panicked on a document that produced no token
C1_Witness ==
  /\ last.op = "add_doc"
  /\ last.outcome = "panic"
  /\ index.len_prose[last.doc_id] = 0
  /\ index.len_code[last.doc_id] = 0
  /\ \E d \in DOMAIN index.len_prose : index.len_prose[d] > 0

\* C2: once finalize has run, every add_doc call is rejected and changes
\* nothing of the index
C2_AddAfterFinalizeRejected ==
  [][(finalized /\ last'.op = "add_doc")
       => (last'.outcome = "panic" /\ index' = index)]_vars

\* C3: a score call leaves every field of the index as it was
C3_ScoreReadOnly ==
  [][last'.op = "score" => index' = index]_vars

\* a query has been scored against a finalized index and returned documents
C3_Witness ==
  /\ last.op = "score"
  /\ finalized
  /\ last.res # <<>>
  /\ Cardinality(DOMAIN index.len_prose) = MaxDocs

\* the documents with a posting, in either field, for a surviving query term
MatchingDocs(ix, query) ==
  LET qt == q_terms(query)
  IN  {d \in DOMAIN ix.len_prose :
         \E i \in 1..Len(qt) :
            /\ qt[i][1] \in DOMAIN ix.terms
            /\ d \in SeenDocs(ix.terms[qt[i][1]])}

\* C5: after finalize, score returns exactly the documents with a posting in
\* either field for a surviving query term, each once
C5_ExactlyMatchingDocs ==
  (finalized /\ last.op = "score")
    => /\ ResultDocs(last.res) = MatchingDocs(index, last.query)
       /\ Len(last.res) = Cardinality(ResultDocs(last.res))

\* the code-classified query "Error" has returned a document that holds the
\* term in its prose field only, and a second document
C5_Witness ==
  /\ finalized
  /\ last.op = "score"
  /\ last.query = QErrorCode
  /\ Len(last.res) = 2
  /\ \E d \in ResultDocs(last.res) :
        \A i \in 1..Len(index.terms[TermError].code) :
           index.terms[TermError].code[i].doc # d

\* C6: the list score returns is in non-increasing order of score
C6_SortedDescending ==
  last.op = "score"
    => \A i \in 1..(Len(last.res) - 1) : last.res[i][2] >= last.res[i + 1][2]

\* a result of two documents with different scores
C6_Witness ==
  /\ last.op = "score"
  /\ finalized
  /\ Len(last.res) = 2
  /\ last.res[1][2] > last.res[2][2]

\* C7: after finalize, every document score returns has a strictly positive
\* score
C7_ScoresPositive ==
  (finalized /\ last.op = "score")
    => \A i \in 1..Len(last.res) : last.res[i][2] > 0

\* the index has been finalized and no document added since: every term
\* carries the idf of the present corpus
Fresh == finalized /\ index = finalize(index)

\* C7, for an index no document was added to after its finalize
C7_FreshScoresPositive ==
  (Fresh /\ last.op = "score")
    => \A i \in 1..Len(last.res) : last.res[i][2] > 0

\* C8: a query with no surviving term, and a query whose terms are all
\* absent from the index, return the empty list and no error
C8_NoTermNoResult ==
  (last.op = "score"
     /\ \/ last.query \in {QEmpty, QDelims, QNoise}
        \/ \A i \in 1..Len(q_terms(last.query)) :
              q_terms(last.query)[i][1] \notin DOMAIN index.terms)
    => (last.res = <<>> /\ last.outcome = "ok")

\* the query "T Fn" has been scored against a finalized index one of whose
\* documents holds the token T, and another the term error
C8_Witness ==
  /\ last.op = "score"
  /\ last.query = QNoise
  /\ finalized
  /\ <<"p", "a", "r", "s", "e">> \in DOMAIN index.terms
  /\ TermError \in DOMAIN index.terms

\* C9: a query followed by itself gives every document the score the query
\* gives it
C9_RepetitionIgnored ==
  last.op = "score"
    => \A q \in RepeatQueries :
          last.query = Twice(q) => ResultScores(last.res) = ScoreAcc(index, q)

\* "error error" has been scored and has given two documents a positive score
C9_Witness ==
  /\ last.op = "score"
  /\ last.query = Twice(QError)
  /\ finalized
  /\ Len(last.res) = 2
  /\ last.res[2][2] > 0

\* s and t hold the same elements the same number of times
SameTokens(s, t) ==
  /\ Len(s) = Len(t)
  /\ \A x \in Range(s) \cup Range(t) : Count(s, x) = Count(t, x)

\* C10: two queries made of the same tokens in a different order give every
\* document the same score
C10_OrderIndependent ==
  last.op = "score"
    => \A q \in Queries :
          SameTokens(tokenize_raw(last.query), tokenize_raw(q))
            => ResultScores(last.res) = ScoreAcc(index, q)

(***************************************************************************)
(* Properties of the scorer's weights and aggregates                       *)
(***************************************************************************)
\* the posting of document d in the posting list ps, as a set (empty or one)
PostingsOf(ps, d) == {ps[i] : i \in {j \in 1..Len(ps) : ps[j].doc = d}}

\* idf * sat of a posting, before any query-time boost, in units of 1e-5
UnboostedProse(ix, ts, p) ==
  (ts.idf * SatOf(ix.k1, TfpOf(ix.w_prose, ix.b_prose, p.tf,
                               ix.len_prose[p.doc], ix.avg_prose))) \div 100

UnboostedCode(ix, ts, p) ==
  (ts.idf * SatOf(ix.k1, TfpOf(ix.w_code, ix.b_code, p.tf,
                              ix.len_code[p.doc], ix.avg_code))) \div 100

\* the sum of f over the set S of records, f one of the two operators above
RECURSIVE SumProse(_, _, _)
SumProse(ix, ts, S) ==
  IF S = {} THEN 0
  ELSE LET p == CHOOSE x \in S : TRUE
       IN  UnboostedProse(ix, ts, p) + SumProse(ix, ts, S \ {p})

RECURSIVE SumCode(_, _, _)
SumCode(ix, ts, S) ==
  IF S = {} THEN 0
  ELSE LET p == CHOOSE x \in S : TRUE
       IN  UnboostedCode(ix, ts, p) + SumCode(ix, ts, S \ {p})

\* C11: for the one-term queries "error" (a prose token) and "Error" (a code
\* token), every document's score is 1.05 times what its posting in the field
\* of the query token's classification gives plus 0.95 times what its posting
\* in the other field gives (for postings whose unboosted value is at least
\* one unit of the fixed point)
C11_MatchingFieldBoosted ==
  (last.op = "score" /\ last.query \in {QError, QErrorCode}
     /\ TermError \in DOMAIN index.terms)
    => \A d \in ResultDocs(last.res) :
          LET ts == index.terms[TermError]
              pp == PostingsOf(ts.prose, d)
              pc == PostingsOf(ts.code, d)
              up == SumProse(index, ts, pp)
              uc == SumCode(index, ts, pc)
          IN  ((pp # {} => up > 0) /\ (pc # {} => uc > 0))
                => ResultScores(last.res)[d] =
                     IF last.query = QError
                       THEN 105 * up + 95 * uc
                       ELSE 95 * up + 105 * uc

\* the code-classified query "Error" has scored a document holding error in
\* both fields and a document holding it in the prose field only, on current
\* aggregates
C11_Witness ==
  /\ last.op = "score"
  /\ last.query = QErrorCode
  /\ Fresh
  /\ Len(last.res) = 2
  /\ Len(index.terms[TermError].prose) = 2
  /\ Len(index.terms[TermError].code) = 1
  /\ last.res[2][2] > 0

\* the postings of document d that add_doc(d, text) registers are the
\* postings document d has in ix: d was added with this text
HoldsText(ix, d, text) ==
  LET one == InsertDoc(IndexNew(120), d, text)
      Of(x, t) == IF t \in DOMAIN x.terms THEN x.terms[t] ELSE DefaultTermStats
  IN  /\ d \in DOMAIN ix.len_prose
      /\ ix.len_prose[d] = one.len_prose[d]
      /\ ix.len_code[d] = one.len_code[d]
      /\ \A t \in DOMAIN ix.terms \cup DOMAIN one.terms :
            /\ PostingsOf(Of(ix, t).prose, d) = PostingsOf(Of(one, t).prose, d)
            /\ PostingsOf(Of(ix, t).code, d) = PostingsOf(Of(one, t).code, d)

\* the terms a query pushes with the given classification
QueryTermSet(query, is_code) ==
  {q_terms(query)[i][1] :
     i \in {j \in 1..Len(q_terms(query)) : q_terms(query)[j][2] = is_code}}

\* C12: a raw token scored as a query is classified as add_doc classifies it
\* and pushes the terms add_doc counts for it, field by field; and a query
\* that is a raw token of a document's text, with a surviving term, returns
\* that document
C12_BuildQuerySymmetry ==
  (last.op = "score" /\ Len(tokenize_raw(last.query)) = 1)
    => LET raw == tokenize_raw(last.query)[1]
           ft  == FieldTerms(raw)
       IN  /\ QueryTermSet(raw, TRUE) = Range(ft.code)
           /\ QueryTermSet(raw, FALSE) = Range(ft.prose)
           /\ \A d \in DOMAIN index.len_prose, text \in Texts :
                 (/\ HoldsText(index, d, text)
                  /\ raw \in Range(tokenize_raw(text))
                  /\ q_terms(raw) # <<>>)
                   => d \in ResultDocs(last.res)

\* the query "errors" has returned a document added with the text "errors"
\* and a document added with "error Error", after finalize
C12_Witness ==
  /\ last.op = "score"
  /\ last.query = TextErrors
  /\ finalized
  /\ Len(last.res) = 2
  /\ \E d \in DOMAIN index.len_prose : HoldsText(index, d, TextErrors)
  /\ \E d \in DOMAIN index.len_prose : HoldsText(index, d, TextErrorBoth)

\* the documents of the corpus that hold the term t in one field or both
DocsHolding(ix, t) ==
  {d \in DOMAIN ix.len_prose :
     PostingsOf(ix.terms[t].prose, d) # {} \/ PostingsOf(ix.terms[t].code, d) # {}}

\* ln((2n + 2) / (2df + 1)) = ln(1 + (n - df + 0.5) / (df + 0.5)), from the
\* table of logarithms, in units of 1e-4
LnRatio(n, df) == LnE4[2 * n + 2] - LnE4[2 * df + 1]

\* C13: finalize gives every term the idf ln(1 + (N - df + 0.5)/(df + 0.5)),
\* N the number of documents added and df the number of documents holding
\* the term in one field or both; a greater df gives a strictly smaller idf
C13_IdfFromDistinctDocs ==
  last.op = "finalize"
    => LET n == Cardinality(DOMAIN index.len_prose)
       IN  /\ \A t \in DOMAIN index.terms :
                 /\ Cardinality(DocsHolding(index, t)) \in 1..n
                 /\ index.terms[t].idf =
                      LnRatio(n, Cardinality(DocsHolding(index, t)))
           /\ \A t1, t2 \in DOMAIN index.terms :
                 Cardinality(DocsHolding(index, t1))
                     < Cardinality(DocsHolding(index, t2))
                   => index.terms[t1].idf > index.terms[t2].idf
           /\ \A df1, df2 \in 1..n :
                 df1 < df2 => LnRatio(n, df1) > LnRatio(n, df2)

\* finalize has run on two documents, one of which holds error in both
\* fields while the other does not hold it
C13_Witness ==
  /\ last.op = "finalize"
  /\ Cardinality(DOMAIN index.len_prose) = 2
  /\ TermError \in DOMAIN index.terms
  /\ Len(index.terms[TermError].prose) = 1
  /\ Len(index.terms[TermError].code) = 1
  /\ index.terms[TermError].prose[1].doc = index.terms[TermError].code[1].doc
  /\ index.terms[TermError].idf = LnRatio(2, 1)

\* C14: after finalize, every term of the index is held by at least one and
\* at most N documents and has a strictly positive idf
C14_IdfPositive ==
  finalized
    => \A t \in DOMAIN index.terms :
          /\ Cardinality(DocsHolding(index, t)) \in
                1..Cardinality(DOMAIN index.len_prose)
          /\ index.terms[t].idf > 0

\* C14, for an index no document was added to after its finalize
C14_FreshIdfPositive ==
  Fresh
    => \A t \in DOMAIN index.terms :
          /\ Cardinality(DocsHolding(index, t)) \in
                1..Cardinality(DOMAIN index.len_prose)
          /\ index.terms[t].idf > 0

\* C15: no score call divides by zero and every score returned is a finite
\* number, also on an empty corpus, with a field whose average length is 0
\* and with a document whose length in a field is 0
C15_ScoresFinite ==
  last.op = "score"
    => /\ last.outcome = "ok"
       /\ \A i \in 1..Len(last.res) : last.res[i][2] \in Nat

\* a query has been scored and has returned a document of prose length 1 and
\* code length 0 while the average prose length of the index was 0
C15_Witness ==
  /\ last.op = "score"
  /\ index.avg_prose.num = 0
  /\ \E d \in ResultDocs(last.res) :
        index.len_prose[d] = 1 /\ index.len_code[d] = 0

\* C16: a score call on an index that was never finalized completes, finds
\* both average lengths 0 and the idf of every term 0, and gives every
\* document it returns the score zero
C16_UnfinalizedScoresZero ==
  (~finalized /\ last.op = "score")
    => /\ last.outcome = "ok"
       /\ index.avg_prose = ZeroAvg
       /\ index.avg_code = ZeroAvg
       /\ \A t \in DOMAIN index.terms : index.terms[t].idf = 0
       /\ \A i \in 1..Len(last.res) : last.res[i][2] = 0

\* "error Error" has been scored against two documents that were never
\* finalized and has returned both
C16_Witness ==
  /\ ~finalized
  /\ last.op = "score"
  /\ last.query = QProseCode
  /\ Cardinality(DOMAIN index.len_prose) = 2
  /\ Len(last.res) = 2

\* the position of document d in a score result
RankOf(res, d) == CHOOSE i \in 1..Len(res) : res[i][1] = d

\* in the result of a one-term query for error, every document holding the
\* term in both fields has a strictly greater score than, and comes before,
\* every document holding it in the prose field only with the same prose
\* term frequency and the same prose length
BothFieldsRankAbove ==
  \A d1, d2 \in ResultDocs(last.res) :
     LET ts == index.terms[TermError]
         p1 == PostingsOf(ts.prose, d1)
         p2 == PostingsOf(ts.prose, d2)
     IN  (/\ p1 # {} /\ PostingsOf(ts.code, d1) # {}
          /\ p2 # {} /\ PostingsOf(ts.code, d2) = {}
          /\ \A x \in p1, y \in p2 : x.tf = y.tf
          /\ index.len_prose[d1] = index.len_prose[d2])
           => /\ ResultScores(last.res)[d1] > ResultScores(last.res)[d2]
              /\ RankOf(last.res, d1) < RankOf(last.res, d2)

\* C17: after finalize every posting of a query term adds a strictly
\* positive contribution to its document's score, so that for the one-term
\* queries "error" and "Error" a document holding the term in both fields
\* ranks strictly above one holding it in the prose field only with the same
\* prose term frequency and prose length
C17_BothFieldsRankAbove ==
  (finalized /\ last.op = "score" /\ last.query \in {QError, QErrorCode})
    => BothFieldsRankAbove

\* C17, for an index no document was added to after its finalize
C17_FreshBothFieldsRankAbove ==
  (Fresh /\ last.op = "score" /\ last.query \in {QError, QErrorCode})
    => BothFieldsRankAbove

\* on current aggregates "error" has ranked a document holding error in both
\* fields above a document holding it in the prose field only
C17_FreshWitness ==
  /\ Fresh
  /\ last.op = "score"
  /\ last.query = QError
  /\ Len(last.res) = 2
  /\ PostingsOf(index.terms[TermError].code, last.res[1][1]) # {}
  /\ PostingsOf(index.terms[TermError].code, last.res[2][1]) = {}

\* the sum of the term frequencies of document d's postings in a field
RECURSIVE SumTf(_, _, _, _)
SumTf(ix, field, d, T) ==
  IF T = {} THEN 0
  ELSE LET t  == CHOOSE x \in T : TRUE
           ps == IF field = "prose" THEN ix.terms[t].prose ELSE ix.terms[t].code
           tf == IF PostingsOf(ps, d) = {} THEN 0
                 ELSE (CHOOSE p \in PostingsOf(ps, d) : TRUE).tf
       IN  tf + SumTf(ix, field, d, T \ {t})

\* document d's term frequency for t in the code field, 0 without a posting
CodeTf(ix, t, d) ==
  IF t \in DOMAIN ix.terms THEN SumTf(ix, "code", d, {t}) ELSE 0

ProseTf(ix, t, d) ==
  IF t \in DOMAIN ix.terms THEN SumTf(ix, "prose", d, {t}) ELSE 0

TermParseHttp == <<"p", "a", "r", "s", "e", "_", "h", "t", "t", "p">>

TermParse == <<"p", "a", "r", "s", "e">>

TermHttp == <<"h", "t", "t", "p">>

\* C18: every document's prose length and code length are the sums of the
\* term frequencies of its postings in that field; the token Error counts
\* twice for the code term error (whole token and only subword), parse_http
\* counts once each for parse_http, parse and http while T is dropped as a
\* whole token and as a subword, and a prose token counts for its normalised
\* form
C18_LengthsSumTermFrequencies ==
  \A d \in DOMAIN index.len_prose :
     /\ d \in DOMAIN index.len_code
     /\ index.len_prose[d] = SumTf(index, "prose", d, DOMAIN index.terms)
     /\ index.len_code[d] = SumTf(index, "code", d, DOMAIN index.terms)
     /\ CodeTf(index, TermError, d) \in {0, 2}
     /\ CodeTf(index, TermError, d) = 2 => index.len_code[d] = 2
     /\ CodeTf(index, TermParseHttp, d) \in {0, 1}
     /\ CodeTf(index, TermParseHttp, d) = 1
          => /\ CodeTf(index, TermParse, d) = 1
             /\ CodeTf(index, TermHttp, d) = 1
             /\ index.len_code[d] = 3
     /\ index.len_prose[d] = ProseTf(index, TermError, d)
     /\ <<"t">> \notin DOMAIN index.terms
     /\ <<"e", "r", "r", "o", "r", "s">> \notin DOMAIN index.terms

\* the index holds a document added with "error Error" and a document added
\* with "parse_http T"
C18_Witness ==
  /\ last.op = "add_doc"
  /\ last.outcome = "ok"
  /\ \E d1, d2 \in DOMAIN index.len_prose :
        /\ CodeTf(index, TermError, d1) = 2
        /\ ProseTf(index, TermError, d1) = 1
        /\ CodeTf(index, TermParseHttp, d2) = 1
        /\ index.len_prose[d2] = 0

(***************************************************************************)
(* Properties of the functions on tokens                                   *)
(***************************************************************************)
\* the letters and digits of s, in order
AlnumOf(s) == SelectSeq(s, LAMBDA c : c \in Upper \cup Lower \cup Digit)

\* s is k uppercase letters followed by lowercase letters, at least one
AcronymThenLower(s, k) ==
  /\ k \in 1..(Len(s) - 1)
  /\ \A i \in 1..k : s[i] \in Upper
  /\ \A i \in (k + 1)..Len(s) : s[i] \in Lower

TermHttpL == <<"h", "t", "t", "p">>

TermRequest == <<"r", "e", "q", "u", "e", "s", "t">>

\* C19: the pieces split_identifier returns are non-empty and made of
\* lowercase letters and digits, and together they are the letters and
\* digits of the token, lowercased, in order; the token is split at every
\* "::" and every "_"; an acronym of two or more uppercase letters followed
\* by lowercase letters gives its last letter to the word that follows;
\* HTTPRequest gives http, request, and ParseHttpRequest and
\* parse_http_request give parse, http, request
C19_SplitIdentifier ==
  ret.fn = "split_identifier"
    => /\ \A i \in 1..Len(ret.val) :
             /\ ret.val[i] # <<>>
             /\ \A j \in 1..Len(ret.val[i]) : ret.val[i][j] \in Lower \cup Digit
       /\ Flatten(ret.val) = to_ascii_lowercase(AlnumOf(arg))
       /\ \A i \in 1..Len(arg) :
             arg[i] = "_"
               => ret.val = split_identifier(SubSeq(arg, 1, i - 1))
                              \o split_identifier(SubSeq(arg, i + 1, Len(arg)))
       /\ \A i \in 1..(Len(arg) - 1) :
             (arg[i] = ":" /\ arg[i + 1] = ":")
               => ret.val = split_identifier(SubSeq(arg, 1, i - 1))
                              \o split_identifier(SubSeq(arg, i + 2, Len(arg)))
       /\ \A k \in 1..Len(arg) :
             AcronymThenLower(arg, k)
               => ret.val =
                    IF k = 1 THEN <<to_ascii_lowercase(arg)>>
                    ELSE <<to_ascii_lowercase(SubSeq(arg, 1, k - 1)),
                           to_ascii_lowercase(SubSeq(arg, k, Len(arg)))>>
       /\ arg = TokHTTPRequest => ret.val = <<TermHttpL, TermRequest>>
       /\ arg \in {TokParseHttpRequest, TokParseHttpRequestSnake}
            => ret.val = <<TermParse, TermHttpL, TermRequest>>

\* split_identifier has been applied to HTTPRequest and has returned two
\* pieces
C19_Witness ==
  /\ ret.fn = "split_identifier"
  /\ arg = TokHTTPRequest
  /\ Len(ret.val) = 2

\* the last Len(e) characters of t are e
HasEnding(t, e) ==
  /\ Len(t) >= Len(e)
  /\ \A i \in 1..Len(e) : t[Len(t) - Len(e) + i] = e[i]

\* t without its last k characters
DropLast(t, k) == [i \in 1..(Len(t) - k) |-> t[i]]

\* the plural stage: ies becomes y, else a final s that is not ss is dropped,
\* both for more than 3 characters
PluralFolded(t) ==
  IF HasEnding(t, <<"i", "e", "s">>) /\ Len(t) > 3
    THEN DropLast(t, 3) \o <<"y">>
  ELSE IF HasEnding(t, <<"s">>) /\ ~HasEnding(t, <<"s", "s">>) /\ Len(t) > 3
    THEN DropLast(t, 1)
  ELSE t

\* the tense stage: ing is dropped from more than 5 characters, else ed from
\* more than 4
TenseFolded(t) ==
  IF HasEnding(t, <<"i", "n", "g">>) /\ Len(t) > 5 THEN DropLast(t, 3)
  ELSE IF HasEnding(t, <<"e", "d">>) /\ Len(t) > 4 THEN DropLast(t, 2)
  ELSE t

\* C20: normalize_prose returns the lowercased token after the plural stage
\* and then the tense stage, the second applied to the result of the first;
\* dogs and dog both give dog
C20_NormalizeProse ==
  ret.fn = "normalize_prose"
    => /\ ret.val = TenseFolded(PluralFolded(to_ascii_lowercase(arg)))
       /\ arg \in {TokDogs, TokDog} => ret.val = TokDog

\* normalize_prose has been applied to xxxings and has returned xxx: the s
\* dropped by the first stage, the ing by the second
C20_Witness ==
  /\ ret.fn = "normalize_prose"
  /\ arg = <<"x", "x", "x", "i", "n", "g", "s">>
  /\ ret.val = <<"x", "x", "x">>

\* t is a keyword, starts with a single quote or has exactly one character
KeywordQuoteOrSingle(t) ==
  \/ t \in KW
  \/ (Len(t) > 0 /\ Head(t) = "'")
  \/ Len(t) = 1

\* the code-field terms of a code-like token before the filter: the
\* lowercased whole token, then its subwords
CodeCandidates(tok) == <<to_ascii_lowercase(tok)>> \o split_identifier(tok)

\* C21: is_noise_code_token holds exactly of a keyword, a string that starts
\* with a single quote and a string of length one; for a text that is one
\* code-like token, add_doc counts and score pushes exactly the whole token
\* and subwords that are none of these; for a text that is one prose token
\* both keep its normalised form, keyword or single character or not
C21_NoiseFilter ==
  /\ ret.fn = "is_noise_code_token" => ret.val = KeywordQuoteOrSingle(arg)
  /\ (ret.fn = "add_doc" /\ tokenize_raw(arg) = <<arg>>)
       => IF looks_code(arg)
            THEN /\ ret.val.prose = <<>>
                 /\ ret.val.code =
                      SelectSeq(CodeCandidates(arg),
                                LAMBDA t : ~KeywordQuoteOrSingle(t))
            ELSE /\ ret.val.code = <<>>
                 /\ ret.val.prose = <<normalize_prose(arg)>>
  /\ (ret.fn = "score" /\ tokenize_raw(arg) = <<arg>>)
       => LET kept == SelectSeq(CodeCandidates(arg),
                                LAMBDA t : ~KeywordQuoteOrSingle(t))
          IN  IF looks_code(arg)
                THEN ret.val = [i \in 1..Len(kept) |-> <<kept[i], TRUE>>]
                ELSE ret.val = << <<normalize_prose(arg), FALSE>> >>

\* add_doc has counted the prose token fn, a keyword, in the prose field
C21_Witness ==
  /\ ret.fn = "add_doc"
  /\ arg = <<"f", "n">>
  /\ ret.val.prose = <<arg>>

\* score has dropped the code-like token Fn, whole and as a subword
C21_WitnessCode ==
  /\ ret.fn = "score"
  /\ arg = <<"F", "n">>
  /\ ret.val = <<>>

\* the characters of s that are c
Positions(s, c) == {i \in 1..Len(s) : s[i] = c}

\* C22: looks_code is true of a token exactly when it holds an uppercase
\* letter, a digit, an underscore or two colons in a row, or ends with "!";
\* a token with a single ":" and a token with a "!" that is not its last
\* character are prose
C22_LooksCode ==
  ret.fn = "looks_code"
    => /\ ret.val =
            (\/ \E i \in 1..Len(arg) : arg[i] \in Upper \cup Digit \cup {"_"}
             \/ \E i \in Positions(arg, ":") : i + 1 \in Positions(arg, ":")
             \/ Len(arg) \in Positions(arg, "!"))
       /\ (/\ \A i \in 1..Len(arg) : arg[i] \in Lower \cup {":", "!"}
           /\ Cardinality(Positions(arg, ":")) <= 1
           /\ Len(arg) \notin Positions(arg, "!"))
            => ret.val = FALSE

\* looks_code has found a!:a to be prose: a "!" that is not last, one ":"
C22_Witness ==
  /\ ret.fn = "looks_code"
  /\ arg = <<"a", "!", ":", "a">>
  /\ ret.val = FALSE

\* a character tokenize_raw does not split on
Allowed(c) == c \in Upper \cup Lower \cup Digit \cup {"_", ":", "!"}

\* where the maximal runs of allowed characters of s start
RunStarts(s) ==
  {i \in 1..Len(s) : Allowed(s[i]) /\ (i = 1 \/ ~Allowed(s[i - 1]))}

\* the k-th of them, from the left
KthRunStart(s, k) ==
  CHOOSE i \in RunStarts(s) : Cardinality({x \in RunStarts(s) : x < i}) = k - 1

\* where the maximal run that starts at i ends
RunLast(s, i) ==
  CHOOSE j \in i..Len(s) :
     /\ \A x \in i..j : Allowed(s[x])
     /\ (j = Len(s) \/ ~Allowed(s[j + 1]))

\* C23: the tokens tokenize_raw emits are the maximal runs of allowed
\* characters (letters, digits, "_", ":", "!") of the text, each once, from
\* left to right; none is empty and none holds another character
C23_TokenizeRaw ==
  ret.fn = "tokenize_raw"
    => /\ Len(ret.val) = Cardinality(RunStarts(arg))
       /\ \A k \in 1..Len(ret.val) :
             /\ ret.val[k] # <<>>
             /\ \A i \in 1..Len(ret.val[k]) : Allowed(ret.val[k][i])
             /\ ret.val[k] = SubSeq(arg, KthRunStart(arg, k),
                                    RunLast(arg, KthRunStart(arg, k)))

\* tokenize_raw has found the two tokens of a text whose tokens two
\* delimiters in a row separate
C23_Witness ==
  /\ ret.fn = "tokenize_raw"
  /\ arg = <<"a", " ", "'", "!">>
  /\ ret.val = << <<"a">>, <<"!">> >>

(***************************************************************************)
(* Properties of the shared INDEX                                          *)
(***************************************************************************)
\* C24: every identifier a search returns starts with file:// and is the URI
\* of a registered chapter: get_resource finds it and returns that URI with
\* the content the index holds under it
C24_SearchResultsRetrievable ==
  last.op = "score"
    => \A i \in 1..Len(search_uris(last.res)) :
          LET uri == search_uris(last.res)[i]
          IN  /\ uri[1] = "file://"
              /\ get_resource(uri) # None
              /\ get_resource(uri).uri = uri
              /\ HoldsText(index, uri, get_resource(uri).text)

\* a search has returned the URIs of two chapters with different content
C24_Witness ==
  /\ last.op = "score"
  /\ Len(last.res) = 2
  /\ get_resource(last.res[1][1]) # None
  /\ get_resource(last.res[2][1]) # None
  /\ get_resource(last.res[1][1]).text # get_resource(last.res[2][1]).text

\* the index of the registered chapters: every chapter added once, in order,
\* and one finalize after the last
RECURSIVE AddChapters(_, _)
AddChapters(ix, i) ==
  IF i > NumChapters THEN ix
  ELSE AddChapters(InsertDoc(ix, ChapterUri(i), ChapterTexts[i]), i + 1)

BuiltIndex == finalize(AddChapters(IndexNew(120), 1))

\* C4: the shared index is built exactly once, however many workers call
\* search at first use, and a worker scores only against the complete index:
\* every chapter added, then finalized
C4_BuiltOnceBeforeScore ==
  /\ inits <= 1
  /\ once = "Complete" => (inits = 1 /\ index = BuiltIndex /\ finalized)
  /\ \A w \in Workers : wpc[w] = "score" => once = "Complete"
  /\ last.op = "score" => (once = "Complete" /\ index = BuiltIndex)

\* a search has scored a query and returned every chapter while the other
\* workers had called search before the index was complete
C4_Witness ==
  /\ last.op = "score"
  /\ Len(last.res) = NumChapters
  /\ \E w1, w2 \in Workers :
        /\ w1 # w2
        /\ wpc[w1] = "idle"
        /\ wpc[w2] = "wait"

(***************************************************************************)
(* Properties of the WorkQueue                                              *)
(***************************************************************************)
\* no item twice in a sequence
NoRepeat(sq) == \A i, j \in 1..Len(sq) : i # j => sq[i] # sq[j]

\* C25: the items are received in the order in which the send calls pushed
\* them, and no pushed item is received twice: at every moment the pushed
\* items are the received ones, in the order of their receipt, followed by
\* the ones still in the queue; a receiver that returned Some holds an item
\* that was pushed.
C25_Fifo ==
  /\ enq = deq \o wq.queue
  /\ NoRepeat(enq)
  /\ NoRepeat(deq)
  /\ \A t \in Receivers :
       thr[t].ret = "some" => \E i \in 1..Len(deq) : deq[i] = thr[t].item

\* two items wait in the queue behind one that was received, and both
\* senders have pushed
C25_Witness ==
  /\ Len(deq) = 1
  /\ Len(wq.queue) = 2
  /\ \A t \in Senders : thr[t].ret = "sent"

\* the thread is inside a call, in condvar.wait or woken from it
Blocked(t) == thr[t].pc \in {"wait", "woken"}

\* the step is one of thread t itself, outside condvar.wait: notifications
\* change a thread that waits only
OwnStep(t) == thr[t].pc \in {"idle", "woken"} /\ thr'[t] # thr[t]

\* C26: the queue never holds more items than its capacity; a send that
\* finds the queue full and not shut down pushes nothing and waits, the item
\* of a blocked sender is not in the queue, and a blocked sender returns only
\* from a step that found room in the queue or the shutdown flag set.
C26_Capacity ==
  /\ [](Len(wq.queue) <= capacity)
  /\ [](\A t \in Senders :
         Blocked(t) => \A i \in 1..Len(enq) : enq[i] # thr[t].item)
  /\ [][\A t \in Senders :
         /\ (OwnStep(t) /\ Len(wq.queue) >= capacity /\ ~wq.shutdown)
              => (thr'[t].pc = "wait" /\ wq' = wq /\ enq' = enq)
         /\ (Blocked(t) /\ thr'[t].pc = "idle")
              => (wq.shutdown \/ Len(wq.queue) < capacity)]_vars

\* a sender waits on a full queue that is not shut down
C26_Witness ==
  \E t \in Senders :
    /\ thr[t].pc = "wait"
    /\ Len(wq.queue) = capacity
    /\ ~wq.shutdown

\* C27: no wake-up is lost, whatever the number of senders and receivers: a
\* sender that waits while the queue has room goes on, and a receiver that
\* waits while the queue holds an item goes on; no thread waits for ever
\* while the condition it waits for holds.
C27_NoLostWakeup ==
  /\ \A t \in Senders :
       (thr[t].pc = "wait" /\ Len(wq.queue) < capacity) ~> (thr[t].pc # "wait")
  /\ \A t \in Receivers :
       (thr[t].pc = "wait" /\ wq.queue # <<>>) ~> (thr[t].pc # "wait")

\* a sender waits though the queue has room, and no thread is left that
\* would notify it: all other threads wait too or are outside a call
C27_SenderStranded ==
  \E t \in Senders :
    /\ thr[t].pc = "wait"
    /\ Len(wq.queue) < capacity
    /\ ~wq.shutdown
    /\ \A u \in Threads : thr[u].pc # "woken"

\* thread t takes a step of recv that returns None
ReturnsNone(t) == OwnStep(t) /\ thr'[t].pc = "idle" /\ thr'[t].ret = "None"

\* C28: recv returns None only when shutdown was requested and the queue is
\* empty; everything pushed has then been received, in the order of the
\* pushes, so no None comes before an item pushed before the shutdown; and
\* once the queue is drained after shutdown it stays empty and every step of
\* a recv returns None.
C28_NoneOnlyWhenDrained ==
  /\ [][\A t \in Receivers :
         /\ ReturnsNone(t) => (wq.shutdown /\ wq.queue = <<>> /\ deq = enq)
         /\ (wq.shutdown /\ wq.queue = <<>> /\ (RecvCall(t) \/ RecvResume(t)))
              => (thr'[t].pc = "idle" /\ thr'[t].ret = "None")
         /\ (wq.shutdown /\ wq.queue # <<>> /\ (RecvCall(t) \/ RecvResume(t)))
              => (thr'[t].ret = "some" /\ thr'[t].item = Head(wq.queue))]_vars
  /\ [][(wq.shutdown /\ wq.queue = <<>>) => (wq' = wq /\ enq' = enq)]_vars
  /\ [](\A t \in Receivers : thr[t].ret = "None" => (wq.shutdown /\ deq = enq))

\* two items pushed before the shutdown were received after it, and a
\* receiver then got None
C28_Witness ==
  /\ wq.shutdown
  /\ capacity = 2
  /\ Len(deq) = 2
  /\ thr["r1"].ret = "None"
  /\ thr["r2"].ret = "some"

\* C29: shutdown unblocks every waiter: after it every blocked thread comes
\* to return, a receiver that was blocked on the empty queue with None and a
\* blocked sender without pushing its item; a send made after shutdown
\* leaves the queue as it is; a second shutdown changes nothing.
C29_ShutdownUnblocks ==
  /\ \A t \in Threads : wq.shutdown ~> (thr[t].pc = "idle")
  /\ [](wq.shutdown => \A t \in Threads : thr[t].pc # "wait")
  /\ [][\A t \in Receivers :
         (wq.shutdown /\ wq.queue = <<>> /\ Blocked(t) /\ thr'[t] # thr[t])
           => (thr'[t].pc = "idle" /\ thr'[t].ret = "None")]_vars
  /\ [][\A t \in Senders :
         (wq.shutdown /\ OwnStep(t))
           => (thr'[t].pc = "idle" /\ thr'[t].ret = "dropped" /\ wq' = wq
               /\ enq' = enq)]_vars
  /\ [][(wq.shutdown /\ Shutdown) => UNCHANGED vars]_vars

\* shutdown has just woken two threads that were waiting
C29_Witness ==
  /\ wq.shutdown
  /\ \E t, u \in Threads : t # u /\ thr[t].pc = "woken" /\ thr[u].pc = "woken"
  /\ \E t \in Senders : thr[t].pc = "woken"

(***************************************************************************)
(* Properties of the contract generators                                    *)
(***************************************************************************)
\* the characters a package name may hold
PackageNameChars == Upper \cup Lower \cup Digit \cup {"-", "_"}

\* the name is empty, longer than 64 characters, or holds another character
NameRejected(n) ==
  \/ Len(n) = 0
  \/ Len(n) > 64
  \/ \E i \in 1..Len(n) : n[i] \notin PackageNameChars

Generators ==
  {"generate_stylus_contract_cargo_manifest", "generate_stylus_contract_main_rs"}

\* C30: for every package name that is empty, longer than 64 characters or
\* holds a character other than an ASCII letter, an ASCII digit, "-" or "_",
\* both generators return the invalid-package-name error and no generated
\* text; so whatever a generated text holds besides its template is made of
\* those characters only.
C30_InvalidNameRejected ==
  ret.fn \in Generators =>
    /\ NameRejected(arg) => ret.val = [content |-> <<INVALID_PACKAGE_NAME_MSG>>,
                                       is_error |-> TRUE]
    /\ ~ret.val.is_error =>
         \A i \in 1..Len(ret.val.content) :
           ret.val.content[i] \in TemplatePieces \cup PackageNameChars

\* a name of 65 letters, wrong by its length alone, was rejected
C30_Witness ==
  /\ ret.fn = "generate_stylus_contract_main_rs"
  /\ Len(arg) = 65
  /\ \A i \in 1..Len(arg) : arg[i] \in PackageNameChars
  /\ ret.val.is_error

\* a name with a quote and a newline was rejected by the manifest generator
C30_WitnessInjection ==
  /\ ret.fn = "generate_stylus_contract_cargo_manifest"
  /\ arg = <<"\"", "\n">>
  /\ ret.val.is_error

(***************************************************************************)
(* Further properties of the index                                         *)
(***************************************************************************)
\* the value of an average length does not change
SameAvg(a, b) == a.num * b.den = b.num * a.den

\* C37: a finalize of an index that was finalized before, with no document
\* added in between, leaves both average lengths and the idf of every term
\* as they were.
C37_FinalizeIdempotent ==
  [][(last.clean /\ last'.op = "finalize" /\ last'.again)
       => /\ SameAvg(index'.avg_prose, index.avg_prose)
          /\ SameAvg(index'.avg_code, index.avg_code)
          /\ DOMAIN index'.terms = DOMAIN index.terms
          /\ \A t \in DOMAIN index.terms :
                index'.terms[t].idf = index.terms[t].idf]_vars

\* finalize was called again on an index of two documents, with no document
\* added since the finalize before
C37_Witness ==
  /\ last.op = "finalize"
  /\ last.again
  /\ Cardinality(DOMAIN index.len_prose) = 2
  /\ index.avg_prose.num > 0
  /\ \E t \in DOMAIN index.terms : index.terms[t].idf > 0

\* C33: two score calls with the same query on the same finalized index
\* return the same set of (document, score) pairs, and two documents with
\* different scores stand in the same relative order in both results.
C33_DeterministicUpToTies ==
  (finalized /\ last.op = "score" /\ last.prev # <<>>)
    => LET r1 == last.prev[1]
           r2 == last.res
       IN  /\ Range(r1) = Range(r2)
           /\ Len(r1) = Len(r2)
           /\ \A i, j \in 1..Len(r1) :
                 (i < j /\ r1[i][2] # r1[j][2])
                   => RankOf(r2, r1[i][1]) < RankOf(r2, r1[j][1])

\* the second of two score calls returned two documents with different
\* scores
C33_Witness ==
  /\ finalized
  /\ last.op = "score"
  /\ last.prev # <<>>
  /\ Len(last.res) = 2
  /\ last.res[1][2] > last.res[2][2]

\* the second of two score calls returned two documents of equal score in
\* the other order
C33_WitnessTie ==
  /\ finalized
  /\ last.op = "score"
  /\ last.prev # <<>>
  /\ Len(last.res) = 2
  /\ last.res[1][2] = last.res[2][2]
  /\ last.res[1][1] = last.prev[1][2][1]

(***************************************************************************)
(* Further properties of the functions on tokens                           *)
(***************************************************************************)
\* C38: split_camel_acronyms terminates and partitions its input: every
\* turn of its loop, wherever it begins, ends at a greater index that is at
\* most one past the end, so the loop ends after at most Len turns; every
\* piece is non-empty, and the pieces in order are the letters and digits of
\* the input in order, each once: the back-up after an acronym never gives
\* an empty piece and never gives a character to two pieces.
C38_SplitCamelPartitions ==
  ret.fn = "split_camel_acronyms"
    => /\ \A i \in 1..Len(arg) : CamelNext(arg, i) \in (i + 1)..(Len(arg) + 1)
       /\ \A i \in 1..Len(ret.val) : ret.val[i] # <<>>
       /\ Flatten(ret.val) = AlnumOf(arg)
       /\ Len(ret.val) <= Len(arg)
       /\ \A k \in 2..Len(arg) :
             AcronymThenLower(arg, k)
               => ret.val = <<SubSeq(arg, 1, k - 1), SubSeq(arg, k, Len(arg))>>

\* an acronym followed by lowercase letters was split with the back-up
C38_Witness ==
  /\ ret.fn = "split_camel_acronyms"
  /\ arg = <<"A", "B", "a">>
  /\ ret.val = <<<<"A">>, <<"B", "a">>>>

\* a token of punctuation only gives no piece
C38_WitnessPunctuation ==
  /\ ret.fn = "split_camel_acronyms"
  /\ arg = <<"_", ":", "!">>
  /\ ret.val = <<>>

(***************************************************************************)
(* Properties of the token-vesting contract                                *)
(***************************************************************************)
\* the sum of the amounts of a schedule
AmountsOf(schedule) ==
  SumOver([i \in 1..Len(schedule) |-> schedule[i].amount], 1..Len(schedule))

\* the amounts the storage still holds for the schedules of a token
Locked(token) ==
  SumOver([id \in ScheduleIds |->
             IF vest.token[id] = token THEN AmountsOf(vest.schedule[id]) ELSE 0],
          ScheduleIds)

\* C31: every tranche of a schedule is paid out at most once, and only at a
\* block time that is not before its timestamp; what has been transferred
\* out for a schedule is the sum of its paid tranches and never more than
\* what create deposited for it; the contract's balance of a token covers
\* the amounts still locked in the schedules of that token, and the transfer
\* of unlock never fails.
C31_PaidOnceAndCovered ==
  /\ \A id \in ScheduleIds :
       LET h == vhist[id]
       IN  /\ \A i \in DOMAIN h.paid :
                /\ h.paid[i] <= 1
                /\ h.paid[i] = 1 => h.orig[i].timestamp <= now
                /\ vest.schedule[id][i].amount
                     = (IF h.paid[i] = 1 THEN 0 ELSE h.orig[i].amount)
           /\ h.in = AmountsOf(h.orig)
           /\ h.out = SumOver([i \in DOMAIN h.paid |-> h.paid[i] * h.orig[i].amount],
                              DOMAIN h.paid)
           /\ h.out <= h.in
           /\ Len(vest.schedule[id]) = Len(h.orig)
  /\ \A token \in TokenAddrs : bal[token] >= Locked(token)
  /\ vlast.outcome # "panic"

\* two schedules of one token: the first has been paid out in full, the
\* second in part, by an unlock that has just succeeded
C31_Witness ==
  /\ vlast.op = "unlock"
  /\ vlast.outcome = "Ok"
  /\ vhist[1].out = vhist[1].in
  /\ vhist[1].in > 0
  /\ vhist[2].out > 0
  /\ vhist[2].out < vhist[2].in
  /\ bal["token"] = vhist[2].in - vhist[2].out

\* the schedule exists
Exists(id) == vest.token[id] # ZERO

\* the step changes the owner or the destination of schedule id
ChangesSchedule(id) ==
  vest'.owner[id] # vest.owner[id] \/ vest'.destination[id] # vest.destination[id]

\* the step is a call of change_destination or change_owner for schedule id
\* by a sender who is not its owner
CallByOther(id) ==
  /\ vlast' # vlast
  /\ vlast'.op \in {"change_destination", "change_owner"}
  /\ vlast'.id = id
  /\ vlast'.sender # vest.owner[id]

\* only the owner changes a schedule, and nobody does once the owner is zero
OnlyOwnerChanges(id) ==
  /\ ChangesSchedule(id)
       => /\ vlast'.sender = vest.owner[id]
          /\ vlast'.op \in {"change_destination", "change_owner"}
          /\ vlast'.id = id
          /\ vlast'.outcome = "Ok"
  /\ vest.owner[id] = ZERO
       => (vest'.owner[id] = ZERO /\ vest'.destination[id] = vest.destination[id])

\* C32: change_destination and change_owner for an existing schedule, called
\* by anyone but its owner, fail with Unauthorized and leave the schedule
\* as it is; only the owner changes the destination or the owner, and once
\* the owner is the zero address neither changes again.
C32_NonOwnerUnauthorized ==
  [][\A id \in ScheduleIds :
       Exists(id)
         => /\ CallByOther(id) => (vlast'.outcome = "Unauthorized" /\ vest' = vest)
            /\ OnlyOwnerChanges(id)]_vars

\* C32, with the error change_destination gives for the zero address: a call
\* by anyone but the owner fails and leaves the schedule as it is, with
\* InvalidDestination when change_destination is given the zero address and
\* with Unauthorized otherwise.
C32_NonOwnerFails ==
  [][\A id \in ScheduleIds :
       Exists(id)
         => /\ CallByOther(id)
                 => /\ vest' = vest
                    /\ vlast'.outcome =
                         (IF vlast'.op = "change_destination" /\ vlast'.to = ZERO
                            THEN "InvalidDestination" ELSE "Unauthorized")
            /\ OnlyOwnerChanges(id)]_vars

\* change_owner for a schedule whose owner is the zero address has failed
\* with Unauthorized
C32_Witness ==
  /\ vlast.op = "change_owner"
  /\ vlast.outcome = "Unauthorized"
  /\ vlast.id \in ScheduleIds
  /\ Exists(vlast.id)
  /\ vest.owner[vlast.id] = ZERO

\* change_destination to the zero address by a sender who is not the owner
\* has failed with InvalidDestination
C32_WitnessZeroDestination ==
  /\ vlast.op = "change_destination"
  /\ vlast.outcome = "InvalidDestination"
  /\ vlast.id \in ScheduleIds
  /\ Exists(vlast.id)
  /\ vlast.sender # vest.owner[vlast.id]

(***************************************************************************)
(* Properties of the chat session                                          *)
(***************************************************************************)
\* the number of spinners in the chat list
Spinners == Cardinality({i \in 1..Len(ctx.chat_list_items) :
                           ctx.chat_list_items[i] = "Spinner"})

LastIsSpinner ==
  /\ ctx.chat_list_items # <<>>
  /\ ctx.chat_list_items[Len(ctx.chat_list_items)] = "Spinner"

\* C36: the status is Waiting exactly when the last chat item is a Spinner,
\* the list holds at most one Spinner, no prompt is sent while the status
\* is Waiting, and the assertion of cancel_spinner does not fail.
C36_WaitingIffSpinner ==
  /\ (ctx.chat_status = "Waiting") <=> LastIsSpinner
  /\ Spinners <= 1
  /\ ~sess.sent_waiting
  /\ sess.state # "panic"

\* a second prompt waits for its response, after one response was shown and
\* one spinner was cancelled
C36_Witness ==
  /\ ctx.chat_status = "Waiting"
  /\ ctx.chat_list_items = <<"User", "Llm", "User", "User", "Spinner">>
  /\ sess.state = "on"

(***************************************************************************)
(* Properties of start                                                     *)
(***************************************************************************)
\* the reading thread is inside send, in condvar.wait or just out of it
ReaderBlocked == sthr[Main].pc \in {"wait", "woken"}

WorkersEnded == \A w \in WorkerThreads : sthr[w].pc = "exit"

C34_WitnessBlocked ==
  /\ sthr[Main].pc = "wait"
  /\ Len(wq.queue) = capacity
  /\ \E w \in WorkerThreads : sthr[w].pc = "work"

\* C35 (as stated): after end-of-input start returns; a worker ends only on
\* None, with shutdown requested and the queue drained; the output thread
\* ends only after every worker has ended; and start returns only after
\* all its threads have ended.
C35_TerminatesOutputLast ==
  /\ sio.eof ~> (sthr[Main].pc = "done")
  /\ [](\A w \in WorkerThreads :
          sthr[w].pc = "exit" => wq.shutdown /\ wq.queue = <<>>)
  /\ [](sthr[Out].pc \in {"exit", "error"} => WorkersEnded)
  /\ [](sthr[Main].pc = "done" =>
          WorkersEnded /\ sthr[Out].pc \in {"exit", "error"})

\* C35 (amended): as above, but the output thread ends after every worker
\* has ended, with the channel empty, or before that when a write fails.
C35_TerminatesOutputLastOrFailed ==
  /\ sio.eof ~> (sthr[Main].pc = "done")
  /\ [](\A w \in WorkerThreads :
          sthr[w].pc = "exit" => wq.shutdown /\ wq.queue = <<>>)
  /\ [](sthr[Out].pc = "exit" => WorkersEnded /\ sio.results = 0)
  /\ [](sthr[Main].pc = "done" =>
          WorkersEnded /\ sthr[Out].pc \in {"exit", "error"})

\* start has returned Ok after end-of-input came with the queue full, and
\* the output thread ended on the closed channel
C35_Witness ==
  /\ sthr[Main].pc = "done"
  /\ sthr[Out].pc = "exit"
  /\ sio.eof
  /\ sio.parsed >= capacity

\* a write has failed and the output thread has ended while a worker is
\* inside work_fn
C35_WitnessWriteFailed ==
  /\ sthr[Out].pc = "error"
  /\ \E w \in WorkerThreads : sthr[w].pc = "work"

====
